---- MODULE Spec2Model ----
(***************************************************************************)
(* A model of the rendering core of the ray tracer: vector and colour      *)
(* arithmetic, the sphere, plane and cylinder intersection routines, and   *)
(* scene::findClosestShape / traceRay / renderPPM.                         *)
(*                                                                         *)
(* Numbers.  A double is modelled as an exact rational <<n, d>> in lowest  *)
(* terms with d > 0; <<0, 0>> is NaN and <<1, 0>>, <<-1, 0>> are the       *)
(* infinities, so that a division by zero propagates the way IEEE          *)
(* arithmetic propagates it.  sqrt is exact on squares of rationals and    *)
(* rounded down otherwise.                                                 *)
(*                                                                         *)
(* Units.  Lengths and ray times are counted in units of 0.0001, which is  *)
(* the default epsilon of ray::reflect.  Hence epsilon is 1, DELTA         *)
(* (0.00001) is 1/10 and RAY_MISS (-1) is -10000.  Direction vectors,      *)
(* colours, reflectivities and cosines are pure numbers.  The scenes of    *)
(* the model are a few tens of units across.                               *)
(***************************************************************************)
EXTENDS Integers, Sequences, FiniteSets, TLC

(***************************************************************************)
(* Rational arithmetic standing for double arithmetic.                     *)
(***************************************************************************)
Abs(x) == IF x < 0 THEN -x ELSE x

Sgn(x) == IF x < 0 THEN -1 ELSE IF x > 0 THEN 1 ELSE 0

RECURSIVE GCD(_, _)
GCD(a, b) == IF b = 0 THEN a ELSE GCD(b, a % b)

\* n / d in lowest terms; d = 0 gives NaN or an infinity
Q(n, d) ==
    IF d = 1 THEN <<n, 1>>
    ELSE IF d = 0 THEN <<Sgn(n), 0>>
    ELSE LET g == GCD(Abs(n), Abs(d))
         IN  IF d < 0 THEN <<(-n) \div g, (-d) \div g>>
             ELSE <<n \div g, d \div g>>

I(n) == <<n, 1>>

NaN == <<0, 0>>

IsNaN(a) == a = NaN

IsFinite(a) == a[2] # 0

RNeg(a) == <<-a[1], a[2]>>

RAdd(a, b) ==
    IF a[2] = 1 /\ b[2] = 1 THEN <<a[1] + b[1], 1>>
    ELSE IF a[2] # 0 /\ b[2] # 0 THEN
        LET g == GCD(a[2], b[2])
        IN  Q(a[1] * (b[2] \div g) + b[1] * (a[2] \div g),
              (a[2] \div g) * b[2])
    ELSE IF IsNaN(a) \/ IsNaN(b) THEN NaN
    ELSE IF a[2] # 0 THEN b
    ELSE IF b[2] # 0 THEN a
    ELSE IF a = b THEN a ELSE NaN

RSub(a, b) == RAdd(a, RNeg(b))

RMul(a, b) ==
    IF a[2] = 1 /\ b[2] = 1 THEN <<a[1] * b[1], 1>>
    ELSE IF a[2] = 0 \/ b[2] = 0 THEN <<Sgn(a[1]) * Sgn(b[1]), 0>>
    ELSE LET g1 == GCD(Abs(a[1]), b[2])
             g2 == GCD(Abs(b[1]), a[2])
         IN  <<(a[1] \div g1) * (b[1] \div g2),
               (a[2] \div g2) * (b[2] \div g1)>>

RInv(a) == IF a[1] < 0 THEN <<-a[2], -a[1]>> ELSE <<a[2], a[1]>>

RDiv(a, b) == RMul(a, RInv(b))

\* the comparison operators of C++ on doubles: every comparison with NaN
\* is false except !=
RLt(a, b) ==
    IF IsNaN(a) \/ IsNaN(b) THEN FALSE
    ELSE IF a[2] # 0 /\ b[2] # 0 THEN a[1] * b[2] < b[1] * a[2]
    ELSE IF a[2] = 0 /\ b[2] = 0 THEN a[1] < b[1]
    ELSE IF a[2] = 0 THEN a[1] < 0
    ELSE b[1] > 0

REq(a, b) == ~IsNaN(a) /\ ~IsNaN(b) /\ a = b

RNe(a, b) == ~REq(a, b)

RGt(a, b) == RLt(b, a)

RLe(a, b) == RLt(a, b) \/ REq(a, b)

RGe(a, b) == RLe(b, a)

Zero == I(0)

\* floor of the square root of a natural number (Newton's iteration)
RECURSIVE ISqrtIter(_, _)
ISqrtIter(n, x) ==
    LET y == (x + n \div x) \div 2
    IN  IF y >= x THEN x ELSE ISqrtIter(n, y)

ISqrt(n) == IF n <= 1 THEN n ELSE ISqrtIter(n, n)

\* a square root that is not rational is rounded down to a multiple of
\* 1 / SqrtRes
SqrtRes == 16

\* sqrt of <cmath>
RSqrt(a) ==
    IF IsNaN(a) \/ a[1] < 0 THEN NaN
    ELSE IF a[2] = 0 THEN a
    ELSE LET s1 == ISqrt(a[1])
             s2 == ISqrt(a[2])
         IN  IF s1 * s1 = a[1] /\ s2 * s2 = a[2] THEN <<s1, s2>>
             ELSE Q(ISqrt((a[1] * SqrtRes * SqrtRes) \div a[2]), SqrtRes)

\* (int) of a double: truncation toward zero
ToInt(a) ==
    IF a[1] >= 0 THEN a[1] \div a[2] ELSE -((-a[1]) \div a[2])

(***************************************************************************)
(* mvector<T, 3>: a triple of numbers.                                     *)
(***************************************************************************)
Vec(x, y, z) == <<I(x), I(y), I(z)>>

VAdd(u, v) == <<RAdd(u[1], v[1]), RAdd(u[2], v[2]), RAdd(u[3], v[3])>>

VSub(u, v) == <<RSub(u[1], v[1]), RSub(u[2], v[2]), RSub(u[3], v[3])>>

VNeg(u) == <<RNeg(u[1]), RNeg(u[2]), RNeg(u[3])>>

VScale(u, s) == <<RMul(u[1], s), RMul(u[2], s), RMul(u[3], s)>>

Dot(u, v) ==
    RAdd(RAdd(RMul(v[1], u[1]), RMul(v[2], u[2])), RMul(v[3], u[3]))

\* operator%: the cross product
Cross(u, v) ==
    <<RSub(RMul(u[2], v[3]), RMul(u[3], v[2])),
      RAdd(RMul(RNeg(u[1]), v[3]), RMul(u[3], v[1])),
      RSub(RMul(u[1], v[2]), RMul(u[2], v[1]))>>

magsq(u) == Dot(u, u)

mag(u) == RSqrt(magsq(u))

norm_div(u, magnitude) ==
    <<RDiv(u[1], magnitude), RDiv(u[2], magnitude), RDiv(u[3], magnitude)>>

norm(u) == norm_div(u, mag(u))

\* projection of v onto the direction of onto
proj_onto(v, ontohat) == VScale(ontohat, Dot(v, ontohat))

proj(v, onto) == proj_onto(v, norm(onto))

(***************************************************************************)
(* ray: origin P and direction D.                                          *)
(***************************************************************************)
RAY_MISS == I(-10000)

Ray(start, direction, normalizeDir) ==
    [P |-> start, D |-> IF normalizeDir THEN norm(direction) ELSE direction]

getPointAtT(r, t) == VAdd(r.P, VScale(r.D, t))

\* epsilon is 0.0001, one unit of length
reflect_ray(X, D_r, epsilon) == Ray(VAdd(X, VScale(D_r, epsilon)), D_r, TRUE)

reflect(r, X, N) ==
    reflect_ray(X, VAdd(r.D, VScale(proj(VNeg(r.D), N), I(2))), I(1))

(***************************************************************************)
(* The shapes.  A shape is a record; kind tells its class.  A routine with *)
(* local variables is written as a chain of definitions, each taking the   *)
(* locals computed so far as its parameters.                               *)
(***************************************************************************)
sphere(color, radius, theCenter, reflectivity) ==
    [kind |-> "sphere", color |-> color, reflectivity |-> reflectivity,
     rad |-> radius, center |-> theCenter]

\* two roots, t1 <= t2: the negative ones are discarded
getIntersections_sorted(t1, t2) ==
    IF RLt(t1, Zero) /\ RLt(t2, Zero)
        THEN [n |-> 0, t1 |-> RAY_MISS, t2 |-> RAY_MISS]
    ELSE IF RLt(t1, Zero) THEN [n |-> 1, t1 |-> RAY_MISS, t2 |-> t2]
    ELSE [n |-> 2, t1 |-> t1, t2 |-> t2]

\* two roots: swapped so that t1 is the smaller
getIntersections_two(t1, t2) ==
    IF RGt(t1, t2) THEN getIntersections_sorted(t2, t1)
    ELSE getIntersections_sorted(t1, t2)

\* one root; t2 keeps what it held before the call
getIntersections_one(t1, t2in) ==
    IF RLt(t1, Zero) THEN [n |-> 0, t1 |-> RAY_MISS, t2 |-> t2in]
    ELSE [n |-> 1, t1 |-> t1, t2 |-> t2in]

getIntersections_tmpsqrt(a, b, tmpsqrt) ==
    getIntersections_two(RDiv(RAdd(RNeg(b), tmpsqrt), RMul(I(2), a)),
                         RDiv(RSub(RNeg(b), tmpsqrt), RMul(I(2), a)))

\* the branches on the discriminant, with a tangent ray taken for a miss
getIntersections_disc_TangentMiss(a, b, disc, t2in) ==
    IF RLe(disc, Zero) THEN [n |-> 0, t1 |-> RAY_MISS, t2 |-> RAY_MISS]
    ELSE IF REq(disc, Zero)
        THEN getIntersections_one(RDiv(RNeg(b), RMul(I(2), a)), t2in)
    ELSE getIntersections_tmpsqrt(a, b, RSqrt(disc))

\* the branches on the discriminant
getIntersections_disc(a, b, disc, t2in) ==
    IF RLt(disc, Zero) THEN [n |-> 0, t1 |-> RAY_MISS, t2 |-> RAY_MISS]
    ELSE IF REq(disc, Zero)
        THEN getIntersections_one(RDiv(RNeg(b), RMul(I(2), a)), t2in)
    ELSE getIntersections_tmpsqrt(a, b, RSqrt(disc))

getIntersections_abc(a, b, c, t2in) ==
    getIntersections_disc(a, b, RSub(RMul(b, b), RMul(RMul(I(4), a), c)), t2in)

\* t1in and t2in are what the caller's t1 and t2 hold before the call; an
\* out-parameter that no branch assigns keeps that value (every branch
\* assigns t1).  n is the count returned.
getIntersections(s, r, t1in, t2in) ==
    getIntersections_abc(
        Dot(r.D, r.D),
        RMul(I(2), RSub(Dot(r.P, r.D), Dot(r.D, s.center))),
        RSub(RSub(RAdd(Dot(r.P, r.P), Dot(s.center, s.center)),
                  RMul(I(2), Dot(r.P, s.center))),
             RMul(s.rad, s.rad)),
        t2in)

\* junk: the indeterminate contents of the uninitialised locals t1 and t2
sphere_intersection(s, r, junk) ==
    getIntersections(s, r, junk[1], junk[2]).t1

sphere_surfaceNorm(s, surfacePt) == norm(VSub(surfacePt, s.center))

infplane(color, distFromOrig, surfaceNormal) ==
    [kind |-> "plane", color |-> color, reflectivity |-> Zero,
     dist |-> distFromOrig, surfNorm |-> norm(surfaceNormal)]

infplane_intersection_t_NoNegativeTest(t) == t

infplane_intersection_t(t) == IF RLt(t, Zero) THEN RAY_MISS ELSE t

infplane_intersection_denom(p, r, denom) ==
    IF REq(denom, Zero) THEN RAY_MISS
    ELSE infplane_intersection_t(
             RDiv(RNeg(RAdd(Dot(r.P, p.surfNorm), p.dist)), denom))

infplane_intersection(p, r) ==
    infplane_intersection_denom(p, r, Dot(r.D, p.surfNorm))

infplane_surfaceNorm(p, surfacePt) == norm(p.surfNorm)

cylinder(color, radius, theCenter, height, orientation, reflectivity) ==
    [kind |-> "cylinder", color |-> color, reflectivity |-> reflectivity,
     center |-> theCenter, radius |-> radius, axis |-> norm(orientation),
     height |-> height]

\* val1 and val2 after the swap: val1 is the shorter
cylinder_intersection_vals(cy, val1, val2, t1) ==
    IF /\ RGe(magsq(val1), RDiv(RMul(cy.height, cy.height), I(4)))
       /\ RGe(magsq(val2), RDiv(RMul(cy.height, cy.height), I(4)))
        THEN RAY_MISS
    ELSE t1

cylinder_intersection_swap(cy, val1, val2, t1) ==
    IF RGt(magsq(val1), magsq(val2))
        THEN cylinder_intersection_vals(cy, val2, val1, t1)
    ELSE cylinder_intersection_vals(cy, val1, val2, t1)

\* out: t1 and t2 as getIntersections leaves them
cylinder_intersection_out(cy, cpar, ppar, dpar, out) ==
    cylinder_intersection_swap(cy,
        VSub(VAdd(ppar, VScale(dpar, out.t1)), cpar),
        VSub(VAdd(ppar, VScale(dpar, out.t2)), cpar),
        out.t1)

cylinder_intersection_par(cy, r, cpar, ppar, dpar, junk) ==
    cylinder_intersection_out(cy, cpar, ppar, dpar,
        getIntersections(
            sphere(cy.color, cy.radius, VSub(cy.center, cpar), cy.reflectivity),
            Ray(VSub(r.P, ppar), VSub(r.D, dpar), FALSE),
            junk[1], junk[2]))

cylinder_intersection(cy, r, junk) ==
    cylinder_intersection_par(cy, r, proj(cy.center, cy.axis),
                              proj(r.P, cy.axis), proj(r.D, cy.axis), junk)

cylinder_surfaceNorm_vec(cy, vec) == norm(VSub(vec, proj(vec, cy.axis)))

cylinder_surfaceNorm(cy, surfacePt) ==
    cylinder_surfaceNorm_vec(cy, VSub(surfacePt, cy.center))

\* the virtual calls shape::intersection and shape::surfaceNorm
intersection(s, r, junk) ==
    IF s.kind = "sphere" THEN sphere_intersection(s, r, junk)
    ELSE IF s.kind = "plane" THEN infplane_intersection(s, r)
    ELSE cylinder_intersection(s, r, junk)

surfaceNorm(s, surfacePt) ==
    IF s.kind = "sphere" THEN sphere_surfaceNorm(s, surfacePt)
    ELSE IF s.kind = "plane" THEN infplane_surfaceNorm(s, surfacePt)
    ELSE cylinder_surfaceNorm(s, surfacePt)

(***************************************************************************)
(* rgbcolor: a triple of channels.                                         *)
(***************************************************************************)
rgbcolor(r, g, b) == <<r, g, b>>

DEFAULT_BKCOLOR == rgbcolor(Zero, Zero, Zero)

\* operator+=
CAdd(c, rhs) == <<RAdd(c[1], rhs[1]), RAdd(c[2], rhs[2]), RAdd(c[3], rhs[3])>>

\* operator*= with a colour
CMul(c, rhs) == <<RMul(c[1], rhs[1]), RMul(c[2], rhs[2]), RMul(c[3], rhs[3])>>

\* operator*= with a scalar
CScale(c, scalar) ==
    <<RMul(c[1], scalar), RMul(c[2], scalar), RMul(c[3], scalar)>>

\* clamp without its upper test
clamp_max_NoUpperTest(v, maxv) == v

clamp_max(v, maxv) == IF RGt(v, maxv) THEN maxv ELSE v

clamp_channel(v, minv, maxv) ==
    clamp_max(IF RLt(v, minv) THEN minv ELSE v, maxv)

clamp(c, minv, maxv) ==
    <<clamp_channel(c[1], minv, maxv), clamp_channel(c[2], minv, maxv),
      clamp_channel(c[3], minv, maxv)>>

(***************************************************************************)
(* Lights and the camera.  An angle is kept as its cosine.                 *)
(***************************************************************************)
light(color, position) == [color |-> color, pos |-> position]

spotlight(color, pos, direction, cosConeAngle) ==
    [color |-> color, pos |-> pos, dir |-> direction, cosAngle |-> cosConeAngle]

\* acos(c) > angle, for an angle in (0, pi] of cosine cosAngle: acos is
\* decreasing on [-1, 1] and NaN elsewhere
acos_gt(c, cosAngle) ==
    /\ RGe(c, I(-1)) /\ RLe(c, I(1))
    /\ RLt(c, cosAngle)

camera_up(position, dir, right, tanHalfFov) ==
    [pos |-> position, dir |-> dir, right |-> right,
     up |-> norm(Cross(right, dir)), dist |-> RDiv(Q(1, 2), tanHalfFov)]

camera_dir(position, dir, upDir, tanHalfFov) ==
    camera_up(position, dir, norm(Cross(dir, upDir)), tanHalfFov)

\* tanHalfFov is tan(fieldOfView / 2)
camera(position, lookAt, upDir, tanHalfFov) ==
    camera_dir(position, norm(VSub(lookAt, position)), upDir, tanHalfFov)

getRayForPixel_centerx(cam, x, y, height, centerx) ==
    Ray(cam.pos,
        VAdd(VAdd(VScale(cam.dir, cam.dist),
                  VScale(cam.up, RSub(Q(1, 2), RDiv(I(y), I(height - 1))))),
             VScale(cam.right, RSub(RDiv(I(x), I(height - 1)), centerx))),
        TRUE)

getRayForPixel(cam, x, y, width, height) ==
    getRayForPixel_centerx(cam, x, y, height,
                           RDiv(RDiv(I(width), I(height)), I(2)))

(***************************************************************************)
(* scene.  sc is the scene: its shapes, pointlights, spotlights and        *)
(* useShadows.  A pointer to a shape is its index in shapes; 0 is null.    *)
(***************************************************************************)
COLORMAX == 255

MAX_REFLECT == 10

DELTA == Q(1, 10)

RECURSIVE findClosestShape_iter(_, _, _, _, _, _)
RECURSIVE findClosestShape_t(_, _, _, _, _, _, _)
\* the loop without its test t < tIntersect: the first hit is kept
findClosestShape_t_FirstHit(shps, r, junk, i, obj, tIntersect, t) ==
    IF RNe(t, RAY_MISS) /\ RGt(t, Zero) THEN
        IF REq(tIntersect, RAY_MISS)
            THEN findClosestShape_iter(shps, r, junk, i + 1, i, t)
        ELSE findClosestShape_iter(shps, r, junk, i + 1, obj, tIntersect)
    ELSE findClosestShape_iter(shps, r, junk, i + 1, obj, tIntersect)

\* the loop with its test t < tIntersect always true: the last hit is kept
findClosestShape_t_LastHit(shps, r, junk, i, obj, tIntersect, t) ==
    IF RNe(t, RAY_MISS) /\ RGt(t, Zero)
        THEN findClosestShape_iter(shps, r, junk, i + 1, i, t)
    ELSE findClosestShape_iter(shps, r, junk, i + 1, obj, tIntersect)

\* the loop with t <= tIntersect for its test t < tIntersect
findClosestShape_t_TieToLater(shps, r, junk, i, obj, tIntersect, t) ==
    IF RNe(t, RAY_MISS) /\ RGt(t, Zero) THEN
        IF REq(tIntersect, RAY_MISS)
            THEN findClosestShape_iter(shps, r, junk, i + 1, i, t)
        ELSE IF RLe(t, tIntersect)
            THEN findClosestShape_iter(shps, r, junk, i + 1, i, t)
        ELSE findClosestShape_iter(shps, r, junk, i + 1, obj, tIntersect)
    ELSE findClosestShape_iter(shps, r, junk, i + 1, obj, tIntersect)

\* the loop with t >= 0 for its test t > 0
findClosestShape_t_ZeroHit(shps, r, junk, i, obj, tIntersect, t) ==
    IF RNe(t, RAY_MISS) /\ RGe(t, Zero) THEN
        IF REq(tIntersect, RAY_MISS)
            THEN findClosestShape_iter(shps, r, junk, i + 1, i, t)
        ELSE IF RLt(t, tIntersect)
            THEN findClosestShape_iter(shps, r, junk, i + 1, i, t)
        ELSE findClosestShape_iter(shps, r, junk, i + 1, obj, tIntersect)
    ELSE findClosestShape_iter(shps, r, junk, i + 1, obj, tIntersect)

\* one pass of the loop: t is the intersection time of shapes[i]
findClosestShape_t(shps, r, junk, i, obj, tIntersect, t) ==
    IF RNe(t, RAY_MISS) /\ RGt(t, Zero) THEN
        IF REq(tIntersect, RAY_MISS)
            THEN findClosestShape_iter(shps, r, junk, i + 1, i, t)
        ELSE IF RLt(t, tIntersect)
            THEN findClosestShape_iter(shps, r, junk, i + 1, i, t)
        ELSE findClosestShape_iter(shps, r, junk, i + 1, obj, tIntersect)
    ELSE findClosestShape_iter(shps, r, junk, i + 1, obj, tIntersect)

findClosestShape_iter(shps, r, junk, i, obj, tIntersect) ==
    IF i > Len(shps) THEN [obj |-> obj, t |-> tIntersect]
    ELSE findClosestShape_t(shps, r, junk, i, obj, tIntersect,
                            intersection(shps[i], r, junk))

\* obj is the shape returned and t the out-parameter tIntersect
findClosestShape(shps, r, junk) ==
    findClosestShape_iter(shps, r, junk, 1, 0, RAY_MISS)

\* the body without its shadow test
traceRay_contribution_NoShadowTest(sc, junk, objColor, N, lightColor, LdotN, rayToLight, finalColor) ==
    IF RGt(LdotN, Zero)
        THEN CAdd(finalColor, CScale(CMul(lightColor, objColor), LdotN))
    ELSE finalColor

\* the body without its test LdotN > 0
traceRay_contribution_NoFacingTest(sc, junk, objColor, N, lightColor, LdotN, rayToLight, finalColor) ==
    IF sc.useShadows /\ findClosestShape(sc.shapes, rayToLight, junk).obj # 0
        THEN finalColor
    ELSE CAdd(finalColor, CScale(CMul(lightColor, objColor), LdotN))

\* the end of the body of either loop over the lights: the shadow test and
\* the contribution of a light of colour lightColor in direction L
traceRay_contribution(sc, junk, objColor, N, lightColor, LdotN, rayToLight, finalColor) ==
    IF sc.useShadows /\ findClosestShape(sc.shapes, rayToLight, junk).obj # 0
        THEN finalColor
    ELSE IF RGt(LdotN, Zero)
        THEN CAdd(finalColor, CScale(CMul(lightColor, objColor), LdotN))
    ELSE finalColor

traceRay_light(sc, junk, objColor, intersectionPt, N, lightColor, L, finalColor) ==
    traceRay_contribution(sc, junk, objColor, N, lightColor, Dot(L, N),
        Ray(VAdd(intersectionPt, VScale(N, DELTA)), L, TRUE), finalColor)

RECURSIVE traceRay_pointlights(_, _, _, _, _, _, _)
\* the loop over the point lights, from the i-th on
traceRay_pointlights(sc, junk, objColor, intersectionPt, N, i, finalColor) ==
    IF i > Len(sc.pointlights) THEN finalColor
    ELSE traceRay_pointlights(sc, junk, objColor, intersectionPt, N, i + 1,
            traceRay_light(sc, junk, objColor, intersectionPt, N,
                sc.pointlights[i].color,
                norm(VSub(sc.pointlights[i].pos, intersectionPt)),
                finalColor))

\* one spotlight without its cone test
traceRay_spot_NoConeTest(sc, junk, objColor, intersectionPt, N, currLight, L, finalColor) ==
    traceRay_light(sc, junk, objColor, intersectionPt, N,
                   currLight.color, L, finalColor)

\* one spotlight, shadowed only by a shape that is nearer than the light
traceRay_spot_ShadowBeforeLight(sc, junk, objColor, intersectionPt, N, currLight, L, finalColor) ==
    IF acos_gt(Dot(norm(currLight.dir), VNeg(L)), currLight.cosAngle)
        THEN finalColor
    ELSE IF /\ sc.useShadows
            /\ findClosestShape(sc.shapes,
                   Ray(VAdd(intersectionPt, VScale(N, DELTA)), L, TRUE),
                   junk).obj # 0
            /\ RLt(findClosestShape(sc.shapes,
                       Ray(VAdd(intersectionPt, VScale(N, DELTA)), L, TRUE),
                       junk).t,
                   mag(VSub(currLight.pos, intersectionPt)))
        THEN finalColor
    ELSE IF RGt(Dot(L, N), Zero)
        THEN CAdd(finalColor,
                  CScale(CMul(currLight.color, objColor), Dot(L, N)))
    ELSE finalColor

\* one spotlight: skipped when the hit point is outside its cone
traceRay_spot(sc, junk, objColor, intersectionPt, N, currLight, L, finalColor) ==
    IF acos_gt(Dot(norm(currLight.dir), VNeg(L)), currLight.cosAngle)
        THEN finalColor
    ELSE traceRay_light(sc, junk, objColor, intersectionPt, N,
                        currLight.color, L, finalColor)

RECURSIVE traceRay_spotlights(_, _, _, _, _, _, _)
\* the loop over the spotlights, from the i-th on
traceRay_spotlights(sc, junk, objColor, intersectionPt, N, i, finalColor) ==
    IF i > Len(sc.spotlights) THEN finalColor
    ELSE traceRay_spotlights(sc, junk, objColor, intersectionPt, N, i + 1,
            traceRay_spot(sc, junk, objColor, intersectionPt, N,
                sc.spotlights[i],
                norm(VSub(sc.spotlights[i].pos, intersectionPt)),
                finalColor))

\* the reflection test with depth <= MAX_REFLECT
traceRay_frame_DepthLe(sc, r, depth, obj, tIntersect, intersectionPt, N, finalColor) ==
    [r |-> r, depth |-> depth, intersectedObjPtr |-> obj,
     tIntersect |-> tIntersect, intersectionPt |-> intersectionPt, N |-> N,
     finalColor |-> finalColor,
     pc |-> IF /\ RGt(sc.shapes[obj].reflectivity, Zero)
               /\ depth <= MAX_REFLECT
                THEN "reflect" ELSE "return"]

\* a call of traceRay that has run to its recursive call (pc = "reflect") or
\* to its return statement (pc = "return"), with its local variables
traceRay_frame(sc, r, depth, obj, tIntersect, intersectionPt, N, finalColor) ==
    [r |-> r, depth |-> depth, intersectedObjPtr |-> obj,
     tIntersect |-> tIntersect, intersectionPt |-> intersectionPt, N |-> N,
     finalColor |-> finalColor,
     pc |-> IF /\ RGt(sc.shapes[obj].reflectivity, Zero)
               /\ depth < MAX_REFLECT
                THEN "reflect" ELSE "return"]

traceRay_lights(sc, r, depth, junk, found, intersectionPt, N) ==
    traceRay_frame(sc, r, depth, found.obj, found.t, intersectionPt, N,
        traceRay_spotlights(sc, junk, sc.shapes[found.obj].color,
            intersectionPt, N, 1,
            traceRay_pointlights(sc, junk, sc.shapes[found.obj].color,
                intersectionPt, N, 1, DEFAULT_BKCOLOR)))

traceRay_hit(sc, r, depth, junk, found, intersectionPt) ==
    traceRay_lights(sc, r, depth, junk, found, intersectionPt,
                    surfaceNorm(sc.shapes[found.obj], intersectionPt))

\* a miss that returns grey and not the background colour
traceRay_found_GreyMiss(sc, r, depth, junk, found) ==
    IF found.obj = 0
        THEN [r |-> r, depth |-> depth, intersectedObjPtr |-> 0,
              tIntersect |-> found.t, intersectionPt |-> <<NaN, NaN, NaN>>,
              N |-> <<NaN, NaN, NaN>>,
              finalColor |-> rgbcolor(Q(1, 2), Q(1, 2), Q(1, 2)),
              pc |-> "return"]
    ELSE traceRay_hit(sc, r, depth, junk, found, getPointAtT(r, found.t))

traceRay_found(sc, r, depth, junk, found) ==
    IF found.obj = 0
        THEN [r |-> r, depth |-> depth, intersectedObjPtr |-> 0,
              tIntersect |-> found.t, intersectionPt |-> <<NaN, NaN, NaN>>,
              N |-> <<NaN, NaN, NaN>>, finalColor |-> DEFAULT_BKCOLOR,
              pc |-> "return"]
    ELSE traceRay_hit(sc, r, depth, junk, found, getPointAtT(r, found.t))

\* traceRay from its entry to its recursive call or its return
traceRay(sc, r, depth, junk) ==
    traceRay_found(sc, r, depth, junk, findClosestShape(sc.shapes, r, junk))

\* the statement after the recursive call without the factor reflectivity
traceRay_reflected_NoScale(sc, frame, col_r) ==
    [frame EXCEPT !.finalColor = CAdd(frame.finalColor, col_r),
                  !.pc = "return"]

\* the statement after the recursive call: col_r is what the call returned
traceRay_reflected(sc, frame, col_r) ==
    [frame EXCEPT
        !.finalColor = CAdd(frame.finalColor,
            CScale(col_r, sc.shapes[frame.intersectedObjPtr].reflectivity)),
        !.pc = "return"]

\* what renderPPM writes for a pixel of colour c
renderPPM_pixel(c) ==
    <<ToInt(c[1]), ToInt(c[2]), ToInt(c[3])>>

renderPPM_color(c) ==
    renderPPM_pixel(clamp(CScale(c, I(COLORMAX)), Zero, I(COLORMAX)))

(***************************************************************************)
(* arealight: a rectangle of point lights.  aborted records that an        *)
(* assertion of the constructor failed; lights is then what had been       *)
(* generated when it failed.                                               *)
(***************************************************************************)
\* operator/ with a scalar; its assertion scalar != 0 holds of every call
\* the constructor makes, because each spacing is less than its extent
CDiv(c, scalar) ==
    <<RDiv(c[1], scalar), RDiv(c[2], scalar), RDiv(c[3], scalar)>>

\* the initializer list
arealight_fields(color, center, surfaceNormal, horizontalSpacing, verticalSpacing, width, height) ==
    [color |-> color, pos |-> center, norm |-> norm(surfaceNormal),
     horizontalSpacing |-> horizontalSpacing,
     verticalSpacing |-> verticalSpacing,
     width |-> width, height |-> height,
     uhat |-> Vec(0, 0, 0), vhat |-> Vec(0, 0, 0),
     lights |-> <<>>, aborted |-> FALSE]

RECURSIVE constructorHelper_v(_, _, _, _)
\* the inner loop, from v on: the lights of the row at u
constructorHelper_v(al, u, v, numlights) ==
    IF RLe(v, RDiv(al.width, I(2)))
    THEN <<light(CDiv(al.color, I(numlights)),
                 VAdd(VAdd(VScale(al.uhat, u), VScale(al.vhat, v)), al.pos))>>
         \o constructorHelper_v(al, u, RAdd(v, al.horizontalSpacing),
                                numlights)
    ELSE <<>>

RECURSIVE constructorHelper_u(_, _, _)
\* the outer loop, from u on
constructorHelper_u(al, u, numlights) ==
    IF RLe(u, RDiv(al.height, I(2)))
    THEN constructorHelper_v(al, u, RNeg(RDiv(al.width, I(2))), numlights)
         \o constructorHelper_u(al, RAdd(u, al.verticalSpacing), numlights)
    ELSE <<>>

\* numlights and the loops
constructorHelper_lights(al) ==
    [al EXCEPT !.lights =
        al.lights \o
        constructorHelper_u(al, RNeg(RDiv(al.height, I(2))),
            ToInt(RDiv(al.width, al.horizontalSpacing))
                * ToInt(RDiv(al.height, al.verticalSpacing)))]

constructorHelper_vhat(al) ==
    constructorHelper_lights(
        [al EXCEPT !.vhat = norm(Cross(al.norm, al.uhat))])

constructorHelper(al, upDirection) ==
    constructorHelper_vhat(
        [al EXCEPT !.uhat = norm(Cross(upDirection, al.norm))])

\* the constructor without its tests of the spacings against the extents
arealight_NoExtentTest(color, center, surfaceNormal, upDirection, horizontalSpacing, verticalSpacing, width, height) ==
    IF RGt(horizontalSpacing, Zero) /\ RGt(verticalSpacing, Zero)
    THEN constructorHelper(
             arealight_fields(color, center, surfaceNormal, horizontalSpacing,
                              verticalSpacing, width, height), upDirection)
    ELSE [arealight_fields(color, center, surfaceNormal, horizontalSpacing,
                           verticalSpacing, width, height)
             EXCEPT !.aborted = TRUE]

arealight(color, center, surfaceNormal, upDirection, horizontalSpacing, verticalSpacing, width, height) ==
    IF /\ RGt(horizontalSpacing, Zero) /\ RGt(verticalSpacing, Zero)
       /\ RLt(horizontalSpacing, width) /\ RLt(verticalSpacing, height)
    THEN constructorHelper(
             arealight_fields(color, center, surfaceNormal, horizontalSpacing,
                              verticalSpacing, width, height), upDirection)
    ELSE [arealight_fields(color, center, surfaceNormal, horizontalSpacing,
                           verticalSpacing, width, height)
             EXCEPT !.aborted = TRUE]

\* a loop that adds each light in front of the point lights
addAreaLight_InFront(lights, theLight, i) ==
    theLight.lights \o lights

RECURSIVE addAreaLight(_, _, _)
\* scene::addAreaLight, from the i-th light of theLight on: lights is the
\* point-light list of the scene, to which addPointLight appends
addAreaLight(lights, theLight, i) ==
    IF i > Len(theLight.lights) THEN lights
    ELSE addAreaLight(Append(lights, theLight.lights[i]), theLight, i + 1)

\* operator=, this not being rhs: the fields are set from rhs; lights is
\* cleared, and the loop that copies the lights runs over lights itself,
\* which is empty, and not over the lights of rhs
arealight_assign(this, rhs) ==
    [this EXCEPT !.color = rhs.color, !.pos = rhs.pos, !.norm = rhs.norm,
                 !.horizontalSpacing = rhs.horizontalSpacing,
                 !.verticalSpacing = rhs.verticalSpacing,
                 !.width = rhs.width, !.height = rhs.height,
                 !.uhat = rhs.uhat, !.vhat = rhs.vhat,
                 !.lights = <<>>]

(***************************************************************************)
(* operator>> of mvector<T, 3>.  A stream is its characters buf, the       *)
(* number pos of characters consumed, and its failbit and eofbit; p is the *)
(* state of a call: the stream, the vector v, the character c read last    *)
(* and whether std::ios_base::failure has been thrown, after which nothing *)
(* more is done.  zero tells whether a failed extraction of a number       *)
(* stores 0 (C++11) or leaves its target alone.                            *)
(***************************************************************************)
RECURSIVE SkipWs(_, _)
\* formatted extraction first skips white space
SkipWs(buf, pos) ==
    IF pos < Len(buf) /\ buf[pos + 1] = " " THEN SkipWs(buf, pos + 1)
    ELSE pos

\* is >> c at the position pos, white space skipped: at the end of the
\* input the extraction fails, and failbit throws since is.exceptions
input_char(p, pos) ==
    IF p.thrown THEN p
    ELSE IF pos >= Len(p.is.buf)
        THEN [p EXCEPT !.is.pos = pos, !.is.eof = TRUE, !.is.fail = TRUE,
                       !.thrown = TRUE]
    ELSE [p EXCEPT !.is.pos = pos + 1, !.c = p.is.buf[pos + 1]]

RECURSIVE ParseDigits(_, _, _)
\* the digits from pos on: where they end and their value
ParseDigits(buf, pos, val) ==
    IF pos < Len(buf) /\ buf[pos + 1] \in {"0", "1", "2", "3", "4", "5", "6", "7", "8", "9"}
        THEN ParseDigits(buf, pos + 1,
                 10 * val + (CHOOSE d \in 0 .. 9 :
                     <<"0", "1", "2", "3", "4", "5", "6", "7", "8", "9">>[d + 1]
                         = buf[pos + 1]))
    ELSE [pos |-> pos, val |-> val]

\* is >> v[i] at the position pos, white space skipped, the digits being
\* num: with no digit the extraction fails; digits that run to the end of
\* the input set eofbit
input_number(p, i, pos, num) ==
    IF p.thrown THEN p
    ELSE IF num.pos = pos
        THEN [p EXCEPT !.is.pos = pos, !.is.fail = TRUE,
                       !.is.eof = (pos >= Len(p.is.buf)),
                       !.v[i] = IF p.zero THEN Zero ELSE @,
                       !.thrown = TRUE]
    ELSE [p EXCEPT !.is.pos = num.pos, !.v[i] = I(num.val),
                   !.is.eof = (num.pos >= Len(p.is.buf))]

\* is >> v[i] >> c; a c other than ch sets the state to failbit, which throws
input_coord(p, ch) ==
    IF p.thrown \/ p.c = ch THEN p
    ELSE [p EXCEPT !.is.fail = TRUE, !.is.eof = FALSE, !.thrown = TRUE]

\* is >> v[i] >> c and the test of c against ch
input_read(p, i, ch) ==
    input_coord(
        input_char(
            input_number(p, i, SkipWs(p.is.buf, p.is.pos),
                ParseDigits(p.is.buf, SkipWs(p.is.buf, p.is.pos), 0)),
            SkipWs(p.is.buf,
                ParseDigits(p.is.buf, SkipWs(p.is.buf, p.is.pos), 0).pos)),
        ch)

\* after the first character, without the putback
input_first_NoPutback(p) ==
    IF p.thrown THEN p
    ELSE IF p.c = "<"
        THEN input_read(input_read(input_read(p, 1, ","), 2, ","), 3, ">")
    ELSE p

\* after the first character: the two turns of the loop and the last
\* coordinate, or the character is put back
input_first(p) ==
    IF p.thrown THEN p
    ELSE IF p.c = "<"
        THEN input_read(input_read(input_read(p, 1, ","), 2, ","), 3, ">")
    ELSE [p EXCEPT !.is.pos = @ - 1]

\* operator>>(is, v): a stream that has failed already is left alone
mvector_input(is, v, zero) ==
    IF is.fail THEN [is |-> is, v |-> v, c |-> "", zero |-> zero, thrown |-> FALSE]
    ELSE input_first(
             input_char([is |-> is, v |-> v, c |-> "", zero |-> zero,
                         thrown |-> FALSE],
                        SkipWs(is.buf, is.pos)))

(***************************************************************************)
(* State.  shapes, pointlights, spotlights and useShadows are the fields   *)
(* of the scene.  fn, arg and res record the call in progress or made      *)
(* last: the routine, its arguments and what it returned.  stack holds the *)
(* calls of traceRay in progress, the innermost last.  os is the output    *)
(* stream of renderPPM and px, py its loop counters x and y.               *)
(***************************************************************************)
VARIABLES shapes, pointlights, spotlights, useShadows, fn, arg, res, stack,
          os, px, py

vars ==
    <<shapes, pointlights, spotlights, useShadows, fn, arg, res, stack, os,
      px, py>>

sceneVars == <<shapes, pointlights, spotlights, useShadows>>

renderVars == <<os, px, py>>

\* the scene object
scene ==
    [shapes |-> shapes, pointlights |-> pointlights,
     spotlights |-> spotlights, useShadows |-> useShadows]

\* bounds of the inputs
MaxCoord == 3

MaxRad == 2

White == rgbcolor(I(1), I(1), I(1))

Grey == rgbcolor(Q(1, 2), Q(1, 2), Q(1, 2))

Coord == (0 - MaxCoord) .. MaxCoord

\* what an uninitialised pair of locals t1, t2 may hold
Junk == {<<Zero, Zero>>, <<I(7), I(-3)>>, <<NaN, I(2)>>}

NoRes == [n |-> 0, t1 |-> Zero, t2 |-> Zero, ret |-> Zero]

\* rays in the plane z = 0: along the axes, along 3:4, and diagonal ones
\* built with normalizeDir = false
TestRays ==
    {Ray(Vec(x, y, 0), d, TRUE) :
        x \in Coord, y \in Coord,
        d \in {Vec(1, 0, 0), Vec(-1, 0, 0), Vec(0, 1, 0), Vec(0, -1, 0),
               Vec(3, 4, 0)}}
    \cup
    {Ray(Vec(x, y, 0), d, FALSE) :
        x \in Coord, y \in Coord, d \in {Vec(1, 1, 0), Vec(1, -1, 0)}}

TestSpheres ==
    {sphere(Grey, I(r), c, Zero) :
        r \in 1 .. MaxRad, c \in {Vec(0, 0, 0), Vec(1, 2, 0)}}

\* no scene, no call of traceRay and no rendering
NoScene ==
    /\ shapes = <<>> /\ pointlights = <<>> /\ spotlights = <<>>
    /\ useShadows = FALSE
    /\ stack = <<>>
    /\ os = <<>> /\ px = 0 /\ py = 0

(***************************************************************************)
(* The sphere on its own: getIntersections and intersection are applied to *)
(* a sphere and a ray drawn from the sets above.                           *)
(***************************************************************************)
InitSphere ==
    /\ fn = "none"
    /\ arg \in [shape : TestSpheres, ray : TestRays]
    /\ res = NoRes
    /\ NoScene

CallGetIntersections ==
    /\ fn = "none"
    /\ \E junk \in Junk :
          res' = getIntersections(arg.shape, arg.ray, junk[1], junk[2])
                    @@ [ret |-> Zero]
    /\ fn' = "getIntersections"
    /\ UNCHANGED <<arg, sceneVars, stack, renderVars>>

CallSphereIntersection ==
    /\ fn = "none"
    /\ \E junk \in Junk :
          res' = [NoRes EXCEPT !.ret = sphere_intersection(arg.shape, arg.ray, junk)]
    /\ fn' = "intersection"
    /\ UNCHANGED <<arg, sceneVars, stack, renderVars>>

NextSphere == CallGetIntersections \/ CallSphereIntersection

SpecSphere == InitSphere /\ [][NextSphere]_vars

(***************************************************************************)
(* The cylinder on its own.                                                *)
(***************************************************************************)
MaxHalfHeight == 2

TestCylinders ==
    {cylinder(Grey, I(r), c, I(2 * h), ax, Zero) :
        r \in 1 .. MaxRad, h \in 1 .. MaxHalfHeight,
        c \in {Vec(0, 0, 0), Vec(0, 1, 0)},
        ax \in {Vec(0, 2, 0), Vec(1, 0, 0)}}

InitCylinder ==
    /\ fn = "none"
    /\ arg \in [shape : TestCylinders, ray : TestRays]
    /\ res = NoRes
    /\ NoScene

CallCylinderIntersection ==
    /\ fn = "none"
    /\ \E junk \in Junk :
          res' = [NoRes EXCEPT
                    !.ret = cylinder_intersection(arg.shape, arg.ray, junk)]
    /\ fn' = "intersection"
    /\ UNCHANGED <<arg, sceneVars, stack, renderVars>>

NextCylinder == CallCylinderIntersection

SpecCylinder == InitCylinder /\ [][NextCylinder]_vars

(***************************************************************************)
(* The scene: it is built with addShape, addPointLight and addSpotLight,   *)
(* and then findClosestShape or traceRay is called on it.  The model's     *)
(* scenes lie along the x axis: two reflective spheres SA and SB face each *)
(* other across the origin, and the small sphere SC sits on the segment    *)
(* from the point <4, 0, 0> of SA to the light L2.                         *)
(***************************************************************************)
SA == sphere(White, I(2), Vec(6, 0, 0), Q(1, 2))

SB == sphere(rgbcolor(I(1), Q(1, 2), Zero), I(2), Vec(-6, 0, 0), Q(1, 2))

SC == sphere(Grey, Q(1, 20), <<I(2), Q(3, 2), Zero>>, Zero)

\* and a sphere in the place of SA that does not reflect
Shapes == {SA, SB, SC, sphere(Grey, I(2), Vec(6, 0, 0), Zero)}

L2 == light(rgbcolor(Q(7, 10), Q(7, 10), Q(7, 10)), Vec(0, 3, 0))

L3 == light(White, Vec(-10, 0, 0))

Lights == {L2, L3}

\* at the origin, pointing along +x, with a cone angle of 60 degrees
SP == spotlight(rgbcolor(Zero, Q(1, 2), I(1)), Vec(0, 0, 0), Vec(1, 0, 0), Q(1, 2))

\* SP, and a spotlight at <0, 3, 0> pointing along +x whose cone, of cosine
\* 4/5, has the point <4, 0, 0> of SA on its edge
SpotLights ==
    {SP, spotlight(rgbcolor(Q(1, 2), I(1), Zero), Vec(0, 3, 0), Vec(1, 0, 0), Q(4, 5))}

\* the number of shapes and lights of a scene
MaxObjects == 3

Objects == Len(shapes) + Len(pointlights) + Len(spotlights)

\* from the origin along +x, -x and +z
TraceRays ==
    {Ray(Vec(0, 0, 0), d, TRUE) : d \in {Vec(1, 0, 0), Vec(-1, 0, 0), Vec(0, 0, 1)}}

\* also a ray that meets SB and then SA, and one that starts on SA
FindRays ==
    TraceRays \cup {Ray(Vec(-10, 0, 0), Vec(1, 0, 0), TRUE),
                    Ray(Vec(4, 0, 0), Vec(1, 0, 0), TRUE)}

Init ==
    /\ shapes = <<>> /\ pointlights = <<>> /\ spotlights = <<>>
    /\ useShadows \in BOOLEAN
    /\ fn = "none" /\ arg = <<>> /\ res = NoRes
    /\ stack = <<>>
    /\ os = <<>> /\ px = 0 /\ py = 0

addShape(obj) ==
    /\ fn = "none" /\ Objects < MaxObjects
    /\ shapes' = Append(shapes, obj)
    /\ UNCHANGED <<pointlights, spotlights, useShadows, fn, arg, res, stack,
                   renderVars>>

addPointLight(theLight) ==
    /\ fn = "none" /\ Objects < MaxObjects
    /\ pointlights' = Append(pointlights, theLight)
    /\ UNCHANGED <<shapes, spotlights, useShadows, fn, arg, res, stack,
                   renderVars>>

addSpotLight(theLight) ==
    /\ fn = "none" /\ Objects < MaxObjects
    /\ spotlights' = Append(spotlights, theLight)
    /\ UNCHANGED <<shapes, pointlights, useShadows, fn, arg, res, stack,
                   renderVars>>

\* a findClosestShape that empties the shape list it has searched
CallFindClosestShape_ClearsShapes ==
    /\ fn = "none"
    /\ \E r \in FindRays, junk \in Junk :
          /\ arg' = [ray |-> r, junk |-> junk]
          /\ res' = findClosestShape(shapes, r, junk)
    /\ fn' = "findClosestShape"
    /\ shapes' = <<>>
    /\ UNCHANGED <<pointlights, spotlights, useShadows, stack, renderVars>>

CallFindClosestShape ==
    /\ fn = "none"
    /\ \E r \in FindRays, junk \in Junk :
          /\ arg' = [ray |-> r, junk |-> junk]
          /\ res' = findClosestShape(shapes, r, junk)
    /\ fn' = "findClosestShape"
    /\ UNCHANGED <<sceneVars, stack, renderVars>>

\* traceRay is entered: it runs to its recursive call or to its return
CallTraceRay ==
    /\ fn = "none"
    /\ \E r \in TraceRays, depth \in {0, MAX_REFLECT}, junk \in Junk :
          /\ arg' = [ray |-> r, depth |-> depth, junk |-> junk]
          /\ stack' = <<traceRay(scene, r, depth, junk)>>
    /\ fn' = "traceRay"
    /\ UNCHANGED <<sceneVars, res, renderVars>>

Top == stack[Len(stack)]

\* the recursive call of the innermost traceRay
TraceCall ==
    /\ stack # <<>> /\ Top.pc = "reflect"
    /\ stack' = Append(stack,
          traceRay(scene, reflect(Top.r, Top.intersectionPt, Top.N),
                   Top.depth + 1, arg.junk))
    /\ UNCHANGED <<sceneVars, fn, arg, res, renderVars>>

\* the innermost traceRay returns to the traceRay that called it
TraceReturn ==
    /\ Len(stack) >= 2 /\ Top.pc = "return"
    /\ stack' = [SubSeq(stack, 1, Len(stack) - 1) EXCEPT
                    ![Len(stack) - 1] =
                        traceRay_reflected(scene, @, Top.finalColor)]
    /\ UNCHANGED <<sceneVars, fn, arg, res, renderVars>>

\* the outermost traceRay returns to the caller
TraceDone ==
    /\ fn = "traceRay"
    /\ Len(stack) = 1 /\ Top.pc = "return"
    /\ res' = [color |-> Top.finalColor]
    /\ stack' = <<>>
    /\ UNCHANGED <<sceneVars, fn, arg, renderVars>>

Next ==
    \/ \E obj \in Shapes : addShape(obj)
    \/ \E theLight \in Lights : addPointLight(theLight)
    \/ \E theLight \in SpotLights : addSpotLight(theLight)
    \/ CallFindClosestShape
    \/ CallTraceRay
    \/ TraceCall
    \/ TraceReturn
    \/ TraceDone

Spec == Init /\ [][Next]_vars

(***************************************************************************)
(* renderPPM, on scenes that have been built.                              *)
(***************************************************************************)
MaxWidth == 3

MaxHeight == 3

\* on the line from the origin along <3, 0, 4>, which the camera with
\* tan(fov / 2) = 4/3 sees in the pixel x = 2, y = 1 of a 3 by 3 image
SD == sphere(rgbcolor(I(1), Q(1, 2), Zero), I(2), Vec(6, 0, 8), Zero)

L1 == light(rgbcolor(Q(7, 10), Q(7, 10), Q(7, 10)), Vec(0, 0, 0))

\* at the origin, looking along +x: tanHalfFov is tan(fov / 2)
RenderCamera(tanHalfFov) ==
    camera(Vec(0, 0, 0), Vec(1, 0, 0), Vec(0, 1, 0), tanHalfFov)

\* the scene descriptions that are rendered: each has its camera
RenderScenes ==
    {[shapes |-> <<SA>>, pointlights |-> <<L2, L3>>, spotlights |-> <<>>,
      cam |-> RenderCamera(I(2))],
     [shapes |-> <<SA, SB>>, pointlights |-> <<L2>>, spotlights |-> <<SP>>,
      cam |-> RenderCamera(I(2))],
     [shapes |-> <<SD>>, pointlights |-> <<L1>>, spotlights |-> <<>>,
      cam |-> RenderCamera(Q(4, 3))]}

InitRender ==
    /\ \E sc \in RenderScenes :
          /\ shapes = sc.shapes
          /\ pointlights = sc.pointlights
          /\ spotlights = sc.spotlights
    /\ useShadows \in BOOLEAN
    /\ fn = "none" /\ arg = <<>> /\ res = NoRes
    /\ stack = <<>>
    /\ os = <<>> /\ px = 0 /\ py = 0

\* renderPPM is entered and writes the header
RenderStart ==
    /\ fn = "none"
    /\ \E sc \in RenderScenes, width \in 1 .. MaxWidth,
          height \in 1 .. MaxHeight, junk \in Junk :
          /\ sc.shapes = shapes /\ sc.pointlights = pointlights
          /\ sc.spotlights = spotlights
          /\ arg' = [cam |-> sc.cam, width |-> width, height |-> height,
                     junk |-> junk]
          /\ os' = <<<<"P3", width, height, COLORMAX>>>>
    /\ px' = 0 /\ py' = 0
    /\ fn' = "renderPPM"
    /\ UNCHANGED <<sceneVars, res, stack>>

\* the body of the loops up to the call of traceRay
RenderPixel ==
    /\ fn = "renderPPM" /\ stack = <<>>
    /\ py < arg.height /\ px < arg.width
    /\ stack' = <<traceRay(scene,
                     getRayForPixel(arg.cam, px, py, arg.width, arg.height),
                     0, arg.junk)>>
    /\ UNCHANGED <<sceneVars, fn, arg, res, renderVars>>

\* the loops nested the other way round: y steps first
RenderEmit_ColumnMajor ==
    /\ fn = "renderPPM"
    /\ Len(stack) = 1 /\ Top.pc = "return"
    /\ os' = Append(os, renderPPM_color(Top.finalColor))
    /\ IF py + 1 < arg.height
          THEN py' = py + 1 /\ px' = px
          ELSE py' = 0 /\ px' = px + 1
    /\ stack' = <<>>
    /\ UNCHANGED <<sceneVars, fn, arg, res>>

\* traceRay has returned: the pixel is written and the loops step
RenderEmit ==
    /\ fn = "renderPPM"
    /\ Len(stack) = 1 /\ Top.pc = "return"
    /\ os' = Append(os, renderPPM_color(Top.finalColor))
    /\ IF px + 1 < arg.width
          THEN px' = px + 1 /\ py' = py
          ELSE px' = 0 /\ py' = py + 1
    /\ stack' = <<>>
    /\ UNCHANGED <<sceneVars, fn, arg, res>>

NextRender ==
    \/ RenderStart
    \/ RenderPixel
    \/ TraceCall
    \/ TraceReturn
    \/ RenderEmit

SpecRender == InitRender /\ [][NextRender]_vars

(***************************************************************************)
(* Geometry used to state the properties: it is computed from the shape    *)
(* and the ray, independently of the routines above.                       *)
(***************************************************************************)
\* from the ray's origin to the sphere's centre
ToCentre(s, r) == VSub(s.center, r.P)

\* the ray's line passes through the centre of the sphere
ThroughCentre(s, r) == Cross(ToCentre(s, r), r.D) = Vec(0, 0, 0)

\* |D|^2 * (squared distance from the centre to the ray's line - rad^2):
\* positive when the line misses the sphere, zero when it is tangent
LineGap(s, r) ==
    RSub(RSub(RMul(magsq(ToCentre(s, r)), magsq(r.D)),
              RMul(Dot(ToCentre(s, r), r.D), Dot(ToCentre(s, r), r.D))),
         RMul(RMul(s.rad, s.rad), magsq(r.D)))

Tangent(s, r) == REq(LineGap(s, r), Zero)

\* the sphere lies wholly behind the origin of the ray
Behind(s, r) ==
    /\ RLt(Dot(ToCentre(s, r), r.D), Zero)
    /\ RGt(magsq(ToCentre(s, r)), RMul(s.rad, s.rad))

\* no point of the ray (t >= 0) is on the sphere
RayMisses(s, r) == RGt(LineGap(s, r), Zero) \/ Behind(s, r)

\* the roots of |P + tD - C| = rad when the line cuts the sphere twice:
\* (W.D -+ sqrt(-4 LineGap) / 2) / |D|^2 with W = ToCentre
RootLo(s, r) ==
    RDiv(RSub(Dot(ToCentre(s, r), r.D),
              RDiv(RSqrt(RMul(I(4), RNeg(LineGap(s, r)))), I(2))),
         magsq(r.D))

RootHi(s, r) ==
    RDiv(RAdd(Dot(ToCentre(s, r), r.D),
              RDiv(RSqrt(RMul(I(4), RNeg(LineGap(s, r)))), I(2))),
         magsq(r.D))

TwoRoots(s, r) == RLt(LineGap(s, r), Zero)

(***************************************************************************)
(* Properties of findClosestShape and traceRay.                            *)
(***************************************************************************)
Black == rgbcolor(Zero, Zero, Zero)

\* the intersection times of the shapes of the scene with the ray r
Times(r, junk) ==
    [i \in 1 .. Len(shapes) |-> intersection(shapes[i], r, junk)]

\* the shapes whose time in times is strictly positive
Ahead(times) == {i \in DOMAIN times : RGt(times[i], Zero)}

\* obj and t are a closest shape ahead and its time, or the null shape and
\* RAY_MISS when no shape is ahead
ClosestOf(times, obj, t) ==
    IF Ahead(times) = {} THEN obj = 0 /\ t = RAY_MISS
    ELSE /\ obj \in Ahead(times)
         /\ t = times[obj]
         /\ RGt(t, Zero) /\ t # RAY_MISS
         /\ \A j \in Ahead(times) : RLe(t, times[j])

Closest(r, junk, obj, t) == ClosestOf(Times(r, junk), obj, t)

\* C1: findClosestShape returns a shape whose intersection time is strictly
\* positive, not RAY_MISS and at most the time of every other shape with a
\* strictly positive time, and sets the out-parameter to that time; when no
\* shape has a strictly positive time it returns the null shape and sets
\* the out-parameter to RAY_MISS.  It is stated of the call made directly
\* and of the one every traceRay makes for its ray.
C1_ClosestShape ==
    /\ fn = "findClosestShape" => Closest(arg.ray, arg.junk, res.obj, res.t)
    /\ \A i \in 1 .. Len(stack) :
          Closest(stack[i].r, arg.junk, stack[i].intersectedObjPtr,
                  stack[i].tIntersect)

\* two shapes are ahead and the closer one was added after the farther one
C1_Witness ==
    /\ fn = "findClosestShape"
    /\ \E i \in Ahead(Times(arg.ray, arg.junk)),
          j \in Ahead(Times(arg.ray, arg.junk)) :
          /\ i < j
          /\ RLt(Times(arg.ray, arg.junk)[j], Times(arg.ray, arg.junk)[i])
          /\ res.obj = j

\* the steps a traceRay in progress may still take: it falls with every
\* call and every return
Rank ==
    IF stack = <<>> THEN 0
    ELSE Len(stack)
         + (IF stack[Len(stack)].pc = "reflect"
               THEN 2 * (MAX_REFLECT + 1 - stack[Len(stack)].depth) ELSE 0)

\* C2: a traceRay of depth MAX_REFLECT makes no recursive call whatever the
\* reflectivity of the shape it hit; the depths of the nested calls grow by
\* one, so that traceRay(ray, 0) has at most MAX_REFLECT + 1 = 11 of them
\* in progress (depths 0 to 10); and it terminates: a call in progress can
\* always take a step, and every step lowers Rank.
C2_ReflectionDepth ==
    /\ [](\A i \in 1 .. Len(stack) :
             /\ stack[i].depth <= MAX_REFLECT
             /\ stack[i].depth = MAX_REFLECT => stack[i].pc = "return"
             /\ i > 1 => stack[i].depth = stack[i - 1].depth + 1
             /\ i < Len(stack) => stack[i].pc = "reflect")
    /\ []((stack # <<>> /\ arg.depth = 0)
             => /\ stack[1].depth = 0
                /\ Len(stack) <= 11)
    /\ [](stack # <<>>
             => \/ stack[Len(stack)].pc = "reflect"
                \/ stack[Len(stack)].pc = "return"
                      /\ (Len(stack) = 1 => fn \in {"traceRay", "renderPPM"}))
    /\ [][stack # <<>> => Rank' < Rank]_vars

\* the eleventh nested call, of depth MAX_REFLECT, has hit a reflective shape
C2_Witness ==
    /\ Len(stack) = MAX_REFLECT + 1
    /\ stack[Len(stack)].depth = MAX_REFLECT
    /\ stack[Len(stack)].intersectedObjPtr # 0
    /\ RGt(shapes[stack[Len(stack)].intersectedObjPtr].reflectivity, Zero)
    /\ stack[Len(stack)].pc = "return"

\* the direction to the light lt from the hit point of the call f
ToLight(f, lt) == norm(VSub(lt.pos, f.intersectionPt))

\* L.N for the light lt at the hit point of f
Facing(f, lt) == Dot(ToLight(f, lt), f.N)

\* the shadow ray of the spec: from the hit point offset along the normal,
\* towards the light; the light is shadowed when that ray hits any shape
ShadowRay(f, lt) ==
    Ray(VAdd(f.intersectionPt, VScale(f.N, DELTA)), ToLight(f, lt), TRUE)

Unshadowed(f, lt) ==
    \/ ~useShadows
    \/ findClosestShape(shapes, ShadowRay(f, lt), arg.junk).obj = 0

\* lightColor * objectColor * (L.N)
Lambert(f, lt) ==
    CScale(CMul(lt.color, shapes[f.intersectedObjPtr].color), Facing(f, lt))

Contribution(f, lt) ==
    IF Unshadowed(f, lt) /\ RGt(Facing(f, lt), Zero) THEN Lambert(f, lt)
    ELSE Black

\* the hit point is within the cone of the spotlight
InCone(f, sp) ==
    ~acos_gt(Dot(norm(sp.dir), VNeg(ToLight(f, sp))), sp.cosAngle)

RECURSIVE SumPointLights(_, _, _)
\* the contributions of the point lights from the i-th on, but for the
\* light number skip
SumPointLights(f, i, skip) ==
    IF i > Len(pointlights) THEN Black
    ELSE CAdd(IF i = skip THEN Black ELSE Contribution(f, pointlights[i]),
              SumPointLights(f, i + 1, skip))

RECURSIVE SumSpotLights(_, _)
SumSpotLights(f, i) ==
    IF i > Len(spotlights) THEN Black
    ELSE CAdd(IF InCone(f, spotlights[i])
                  THEN Contribution(f, spotlights[i]) ELSE Black,
              SumSpotLights(f, i + 1))

\* the direct lighting without the point light number skip (0: with all)
Direct(f, skip) == CAdd(SumPointLights(f, 1, skip), SumSpotLights(f, 1))

\* the call f hit a shape and its colour holds no reflection: f is at its
\* recursive call or makes none
DirectOnly(f) ==
    /\ f.intersectedObjPtr # 0
    /\ \/ f.pc = "reflect"
       \/ ~(/\ RGt(shapes[f.intersectedObjPtr].reflectivity, Zero)
            /\ f.depth < MAX_REFLECT)

\* the sphere s meets the segment from X to Y, both of which lie outside it
Between(s, X, Y) ==
    /\ s.kind = "sphere"
    /\ RGt(magsq(VSub(s.center, X)), RMul(s.rad, s.rad))
    /\ RGt(magsq(VSub(s.center, Y)), RMul(s.rad, s.rad))
    /\ RGt(Dot(VSub(s.center, X), VSub(Y, X)), Zero)
    /\ RLt(Dot(VSub(s.center, X), VSub(Y, X)), magsq(VSub(Y, X)))
    /\ RLt(RSub(RMul(magsq(VSub(s.center, X)), magsq(VSub(Y, X))),
                RMul(Dot(VSub(s.center, X), VSub(Y, X)),
                     Dot(VSub(s.center, X), VSub(Y, X)))),
           RMul(RMul(s.rad, s.rad), magsq(VSub(Y, X))))

\* a shape of the scene lies strictly between the hit point of f and lt
Occluded(f, lt) ==
    \E j \in 1 .. Len(shapes) : Between(shapes[j], f.intersectionPt, lt.pos)

\* C3 as stated: with shadows enabled, a point light with a shape strictly
\* between the hit point and the light adds nothing to the colour of the
\* hit point; with shadows disabled the same light adds a nonzero colour
\* whenever L.N > 0.
C3_ShadowBetween ==
    \A i \in 1 .. Len(stack) : \A k \in 1 .. Len(pointlights) :
        (DirectOnly(stack[i]) /\ Occluded(stack[i], pointlights[k]))
        => IF useShadows THEN stack[i].finalColor = Direct(stack[i], k)
           ELSE RGt(Facing(stack[i], pointlights[k]), Zero)
                   => stack[i].finalColor # Direct(stack[i], k)

\* C3 amended: with shadows enabled, a point light adds nothing to the
\* colour of the hit point when some shape has a strictly positive
\* intersection time with the shadow ray, the ray cast towards the light
\* from the hit point offset by DELTA along the normal; with shadows
\* disabled, a point light with L.N > 0 adds
\* lightColor * objectColor * (L.N) whatever lies between.
C3_ShadowRayHit ==
    \A i \in 1 .. Len(stack) : \A k \in 1 .. Len(pointlights) :
        DirectOnly(stack[i])
        => /\ (/\ useShadows
               /\ Ahead(Times(ShadowRay(stack[i], pointlights[k]),
                              arg.junk)) # {})
              => stack[i].finalColor = Direct(stack[i], k)
           /\ (~useShadows /\ RGt(Facing(stack[i], pointlights[k]), Zero))
              => stack[i].finalColor =
                    CAdd(Direct(stack[i], k),
                         Lambert(stack[i], pointlights[k]))

\* with shadows enabled, a light that faces the surface is cut off by a
\* shape that its shadow ray hits, and it would have added a colour
C3_Witness ==
    /\ useShadows /\ stack # <<>> /\ DirectOnly(stack[1])
    /\ \E k \in 1 .. Len(pointlights) :
          /\ RGt(Facing(stack[1], pointlights[k]), Zero)
          /\ Ahead(Times(ShadowRay(stack[1], pointlights[k]), arg.junk)) # {}
          /\ Occluded(stack[1], pointlights[k])
          /\ Lambert(stack[1], pointlights[k]) # Black
          /\ stack[1].finalColor = Direct(stack[1], k)

\* C4: a point light with L.N <= 0 adds nothing, an unshadowed light with
\* L.N > 0 adds lightColor * objectColor * (L.N), and the direct lighting
\* of a hit is the sum of these over all the lights; a light is shadowed
\* when shadows are enabled and its shadow ray hits a shape.
C4_Lambert ==
    \A i \in 1 .. Len(stack) :
        DirectOnly(stack[i]) => stack[i].finalColor = Direct(stack[i], 0)

\* a hit lit by two point lights, one facing the surface and one behind it
C4_Witness ==
    /\ stack # <<>> /\ DirectOnly(stack[1])
    /\ \E a \in 1 .. Len(pointlights), b \in 1 .. Len(pointlights) :
          /\ RGt(Facing(stack[1], pointlights[a]), Zero)
          /\ Unshadowed(stack[1], pointlights[a])
          /\ RLt(Facing(stack[1], pointlights[a]), I(1))
          /\ RLe(Facing(stack[1], pointlights[b]), Zero)
          /\ Unshadowed(stack[1], pointlights[b])
          /\ stack[1].finalColor = Lambert(stack[1], pointlights[a])
    /\ stack[1].finalColor # Black

\* C5: traceRay returns the background colour (0, 0, 0) whenever
\* findClosestShape finds no shape for its ray, whatever the lights, the
\* shadows flag and the depth.
C5_Background ==
    /\ \A i \in 1 .. Len(stack) :
          findClosestShape(shapes, stack[i].r, arg.junk).obj = 0
          => /\ stack[i].pc = "return"
             /\ stack[i].finalColor = <<Zero, Zero, Zero>>
    /\ (/\ fn = "traceRay" /\ stack = <<>>
        /\ findClosestShape(shapes, arg.ray, arg.junk).obj = 0)
       => res.color = <<Zero, Zero, Zero>>

\* a reflected ray, in a scene with a light and shadows, has found no shape
C5_Witness ==
    /\ Len(stack) >= 2 /\ useShadows /\ pointlights # <<>>
    /\ stack[Len(stack)].depth > 0
    /\ findClosestShape(shapes, stack[Len(stack)].r, arg.junk).obj = 0
    /\ stack[Len(stack)].finalColor = <<Zero, Zero, Zero>>

(***************************************************************************)
(* Properties of renderPPM.                                                *)
(***************************************************************************)
RECURSIVE RunTrace(_)
\* the colour that the outermost of the calls of traceRay in stk returns
RunTrace(stk) ==
    IF stk[Len(stk)].pc = "reflect"
        THEN RunTrace(Append(stk,
                traceRay(scene,
                    reflect(stk[Len(stk)].r, stk[Len(stk)].intersectionPt,
                            stk[Len(stk)].N),
                    stk[Len(stk)].depth + 1, arg.junk)))
    ELSE IF Len(stk) = 1 THEN stk[1].finalColor
    ELSE RunTrace([SubSeq(stk, 1, Len(stk) - 1) EXCEPT
                      ![Len(stk) - 1] =
                          traceRay_reflected(scene, @,
                                             stk[Len(stk)].finalColor)])

\* the traced colour of the k-th pixel in row-major order, k from 0
PixelColor(k) ==
    RunTrace(<<traceRay(scene,
                  getRayForPixel(arg.cam, k % arg.width, k \div arg.width,
                                 arg.width, arg.height),
                  0, arg.junk)>>)

\* the triplets written so far
Written == Len(os) - 1

\* C6: renderPPM writes the header P3 <width> <height> 255 and then
\* exactly width * height triplets in row-major order: the k-th triplet (k
\* from 0) is the traced colour of the pixel x = k mod width,
\* y = k div width, scaled to 255.
C6_RowMajor ==
    fn = "renderPPM" =>
        /\ os[1] = <<"P3", arg.width, arg.height, 255>>
        /\ Written = py * arg.width + px
        /\ px < arg.width /\ py <= arg.height
        /\ py = arg.height => px = 0 /\ Written = arg.width * arg.height
        /\ stack # <<>>
              => stack[1].r = getRayForPixel(arg.cam, Written % arg.width,
                                  Written \div arg.width, arg.width,
                                  arg.height)
        /\ \A k \in 0 .. Written - 1 :
              os[k + 2] = renderPPM_color(PixelColor(k))

\* an image of 3 by 3 pixels is complete: the only pixel that shows the
\* sphere is x = 2, y = 1, and the only triplet that is not black is the
\* one number 5
C6_Witness ==
    /\ fn = "renderPPM" /\ arg.width = 3 /\ arg.height = 3
    /\ py = arg.height /\ Len(os) = 10
    /\ os[5 + 2] # <<0, 0, 0>>
    /\ \A k \in 0 .. 8 : k # 5 => os[k + 2] = <<0, 0, 0>>

\* channel values that a colour may hold before it is scaled and clamped
SampleChannels == {Q(7, 5), Q(39, 25), I(1), Q(1, 2), Zero, Q(-1, 2), I(-3)}

\* C7: every channel renderPPM emits is an integer in [0, 255]; a traced
\* channel above 1 (1.4, say) is emitted as 255 and a negative one as 0.
C7_ChannelRange ==
    /\ \A k \in 2 .. Len(os) : \A c \in 1 .. 3 : os[k][c] \in 0 .. 255
    /\ fn = "renderPPM" =>
          \A k \in 0 .. Written - 1 : \A c \in 1 .. 3 :
              /\ RGt(PixelColor(k)[c], I(1)) => os[k + 2][c] = 255
              /\ RLt(PixelColor(k)[c], Zero) => os[k + 2][c] = 0
    /\ \A v \in SampleChannels : \A c \in 1 .. 3 :
          /\ renderPPM_color(<<v, v, v>>)[c] \in 0 .. 255
          /\ RGt(v, I(1)) => renderPPM_color(<<v, v, v>>)[c] = 255
          /\ RLt(v, Zero) => renderPPM_color(<<v, v, v>>)[c] = 0

\* a pixel whose traced colour has a channel above 1 was written as 255
C7_Witness ==
    /\ fn = "renderPPM"
    /\ \E k \in 0 .. Written - 1 :
          RGt(PixelColor(k)[1], I(1)) /\ os[k + 2][1] = 255

\* C8: for a ray with two real roots, sphere::intersection returns the
\* smaller root that is not negative, and RAY_MISS only when both roots are
\* negative; with exactly one negative root it returns the other root.
C8_SmallestNonNegativeRoot ==
    (fn = "intersection" /\ arg.shape.kind = "sphere"
        /\ TwoRoots(arg.shape, arg.ray))
    => res.ret =
          (IF RGe(RootLo(arg.shape, arg.ray), Zero)
              THEN RootLo(arg.shape, arg.ray)
           ELSE IF RGe(RootHi(arg.shape, arg.ray), Zero)
              THEN RootHi(arg.shape, arg.ray)
           ELSE RAY_MISS)

\* C9 as stated: getIntersections reports two roots for every ray whose line
\* passes through the centre, none for every ray that misses the sphere and
\* one for every tangent ray.
C9_RootCounts ==
    fn = "getIntersections" =>
        /\ ThroughCentre(arg.shape, arg.ray) => res.n = 2
        /\ RayMisses(arg.shape, arg.ray) => res.n = 0
        /\ Tangent(arg.shape, arg.ray) => res.n = 1

\* C9 amended: two roots for every ray through the centre whose origin is
\* not inside the sphere and has the sphere ahead of it, none for every ray
\* that misses the sphere, one for every tangent ray whose point of
\* tangency is not behind the origin.
C9_RootCountsAhead ==
    fn = "getIntersections" =>
        /\ (/\ ThroughCentre(arg.shape, arg.ray)
            /\ RGe(magsq(ToCentre(arg.shape, arg.ray)),
                   RMul(arg.shape.rad, arg.shape.rad))
            /\ RGt(Dot(ToCentre(arg.shape, arg.ray), arg.ray.D), Zero))
           => res.n = 2
        /\ RayMisses(arg.shape, arg.ray) => res.n = 0
        /\ (/\ Tangent(arg.shape, arg.ray)
            /\ RGe(Dot(ToCentre(arg.shape, arg.ray), arg.ray.D), Zero))
           => res.n = 1

C9_Witness ==
    /\ fn = "getIntersections"
    /\ Tangent(arg.shape, arg.ray)
    /\ RGt(Dot(ToCentre(arg.shape, arg.ray), arg.ray.D), Zero)
    /\ res.n = 1

\* the component of v perpendicular to the axis of the cylinder
Perp(cy, v) == VSub(v, VScale(cy.axis, Dot(v, cy.axis)))

\* the circle and the ray that the cylinder and the ray project to on the
\* plane perpendicular to the axis
PerpSphere(cy) == sphere(cy.color, cy.radius, Perp(cy, cy.center), Zero)

PerpRay(cy, r) == Ray(Perp(cy, r.P), Perp(cy, r.D), FALSE)

\* the point of the ray at time t is strictly within height/2 of the
\* centre, measured along the axis
InHeightRange(cy, r, t) ==
    LET d == Dot(VSub(getPointAtT(r, t), cy.center), cy.axis)
    IN  RLt(RMul(d, d), RDiv(RMul(cy.height, cy.height), I(4)))

\* C10: cylinder::intersection returns the smaller of the two roots of the
\* perpendicular solve whose point is within height/2 of the centre along
\* the axis, and RAY_MISS when neither is; a returned time other than
\* RAY_MISS denotes a point within the height range.
C10_SmallerRootInHeightRange ==
    (/\ fn = "intersection" /\ arg.shape.kind = "cylinder"
     /\ TwoRoots(PerpSphere(arg.shape), PerpRay(arg.shape, arg.ray))
     /\ RGe(RootLo(PerpSphere(arg.shape), PerpRay(arg.shape, arg.ray)), Zero))
    => LET lo == RootLo(PerpSphere(arg.shape), PerpRay(arg.shape, arg.ray))
           hi == RootHi(PerpSphere(arg.shape), PerpRay(arg.shape, arg.ray))
       IN  /\ res.ret = (IF InHeightRange(arg.shape, arg.ray, lo) THEN lo
                         ELSE IF InHeightRange(arg.shape, arg.ray, hi) THEN hi
                         ELSE RAY_MISS)
           /\ res.ret # RAY_MISS
                 => InHeightRange(arg.shape, arg.ray, res.ret)

(***************************************************************************)
(* The other parts on their own: each routine is applied to arguments      *)
(* drawn from a bounded set.                                               *)
(***************************************************************************)
\* a pointer that holds no object, a value that was never set
Null == [kind |-> "null"]

\* planes with normals along the axes, along 3:4, diagonal (normalised with
\* a rounded square root) and along z, to which every test ray is parallel
TestPlanes ==
    {infplane(Grey, I(d), n) :
        d \in Coord,
        n \in {Vec(0, 1, 0), Vec(-2, 0, 0), Vec(3, 4, 0), Vec(1, 1, 0),
               Vec(0, 0, 1)}}

\* bounds of the area lights, in half units
MaxSpacing == 2

MaxExtent == 3

\* the area light of the test fixture, with every spacing (negative, zero,
\* NaN and positive) against every extent
AreaLightArgs ==
    [color : {rgbcolor(Q(4, 5), Q(4, 5), Q(2, 5))}, center : {Vec(0, 4, 1)},
     surfaceNormal : {Vec(0, -1, 0)}, upDirection : {Vec(0, 0, 1)},
     horizontalSpacing : {Q(k, 2) : k \in -1 .. 2 * MaxSpacing} \cup {NaN},
     verticalSpacing : {Q(k, 2) : k \in -1 .. 2 * MaxSpacing} \cup {NaN},
     width : {Q(k, 2) : k \in 1 .. 2 * MaxExtent},
     height : {Q(k, 2) : k \in 1 .. 2 * MaxExtent}]

\* well-formed vectors as characters: the plain form, and one with white
\* space, a number of two digits and more input after the vector
InputBases ==
    {<<"<", "1", ",", "2", ",", "3", ">">>,
     <<" ", "<", " ", "1", "2", " ", ",", "2", ",", "3", " ", ">", " ", "1">>}

\* each well-formed input, with each of its characters left out and with
\* each of its characters replaced; the stream good or failed already
InputArgs ==
    [buf : InputBases
           \cup UNION {{SubSeq(b, 1, k - 1) \o SubSeq(b, k + 1, Len(b)) :
                           k \in 1 .. Len(b)} : b \in InputBases}
           \cup UNION {{SubSeq(b, 1, k - 1) \o <<ch>> \o SubSeq(b, k + 1, Len(b)) :
                           k \in 1 .. Len(b),
                           ch \in {"<", ">", ",", "(", " ", "9"}} :
                        b \in InputBases},
     failed : BOOLEAN, zero : BOOLEAN, v : {Vec(7, 8, 9)}]

\* area lights that have been constructed, of 4 to 15 point lights
AreaLights ==
    {arealight(rgbcolor(Q(4, 5), Q(4, 5), Q(2, 5)), Vec(0, 4, 1),
               Vec(0, -1, 0), Vec(0, 0, 1), hs, I(1), w, I(2)) :
        hs \in {Q(1, 2), I(1)}, w \in {Q(3, 2), I(2)}}

InitUnit ==
    /\ fn = "none"
    /\ arg \in [shape : TestPlanes, ray : TestRays] \cup AreaLightArgs
                \cup InputArgs
                \cup {a \in [this : AreaLights, rhs : AreaLights,
                              same : BOOLEAN] : a.same => a.this = a.rhs}
                \cup [cam : {RenderCamera(I(2))}, x : -1 .. MaxWidth - 1,
                      y : -1 .. MaxHeight - 1, width : 0 .. MaxWidth,
                      height : 0 .. MaxHeight]
    /\ res = NoRes
    /\ NoScene

CallPlaneIntersection ==
    /\ fn = "none"
    /\ "shape" \in DOMAIN arg
    /\ res' = [NoRes EXCEPT !.ret = infplane_intersection(arg.shape, arg.ray)]
    /\ fn' = "intersection"
    /\ UNCHANGED <<arg, sceneVars, stack, renderVars>>

CallAreaLight ==
    /\ fn = "none"
    /\ "horizontalSpacing" \in DOMAIN arg
    /\ res' = arealight(arg.color, arg.center, arg.surfaceNormal,
                        arg.upDirection, arg.horizontalSpacing,
                        arg.verticalSpacing, arg.width, arg.height)
    /\ fn' = "arealight"
    /\ UNCHANGED <<arg, sceneVars, stack, renderVars>>

\* is >> v on a stream at its start
CallInput ==
    /\ fn = "none"
    /\ "buf" \in DOMAIN arg
    /\ res' = mvector_input([buf |-> arg.buf, pos |-> 0, fail |-> arg.failed,
                              eof |-> FALSE], arg.v, arg.zero)
    /\ fn' = "input"
    /\ UNCHANGED <<arg, sceneVars, stack, renderVars>>

\* cam.getRayForPixel(x, y, width, height): a failed assertion aborts
CallGetRayForPixel ==
    /\ fn = "none"
    /\ "cam" \in DOMAIN arg
    /\ res' = IF arg.x >= 0 /\ arg.y >= 0 /\ arg.width > 0 /\ arg.height > 0
                  THEN [ray |-> getRayForPixel(arg.cam, arg.x, arg.y,
                                               arg.width, arg.height),
                        aborted |-> FALSE]
              ELSE [ray |-> Null, aborted |-> TRUE]
    /\ fn' = "getRayForPixel"
    /\ UNCHANGED <<arg, sceneVars, stack, renderVars>>

\* this = rhs for two area lights; same tells that rhs is this very object,
\* for which operator= returns at once
CallAssign ==
    /\ fn = "none"
    /\ "rhs" \in DOMAIN arg
    /\ res' = IF arg.same THEN arg.this ELSE arealight_assign(arg.this, arg.rhs)
    /\ fn' = "operator="
    /\ UNCHANGED <<arg, sceneVars, stack, renderVars>>

NextUnit ==
    \/ CallPlaneIntersection
    \/ CallAreaLight
    \/ CallInput
    \/ CallGetRayForPixel
    \/ CallAssign

SpecUnit == InitUnit /\ [][NextUnit]_vars

(***************************************************************************)
(* Any sequence of calls: the scene is built, queried and rendered, and    *)
(* when a call has returned the caller goes on to add to the scene or to   *)
(* make the next call.                                                     *)
(***************************************************************************)
\* the call made last has returned and the caller goes on
CallReturns ==
    /\ fn # "none" /\ stack = <<>>
    /\ fn = "renderPPM" => py = arg.height
    /\ fn' = "none" /\ arg' = <<>> /\ res' = NoRes
    /\ os' = <<>> /\ px' = 0 /\ py' = 0
    /\ UNCHANGED <<sceneVars, stack>>

SpecCalls == (Init \/ InitRender) /\ [][Next \/ NextRender \/ CallReturns]_vars

(***************************************************************************)
(* The driver: main reads the scene description, a sequence of records     *)
(* each made of a type token and the fields its reader consumes, builds    *)
(* the scene and renders it.  fn is "main" while the description is read,  *)
(* "renderPPM" while the image is rendered and "exit" when the program has *)
(* ended; arg.in is what is left of the input, arg.cam the camera,         *)
(* res.status the exit status and res.err what was written to cerr.        *)
(***************************************************************************)
\* the records of the scene descriptions.  The camera is at the origin and
\* looks along +x; the rays of its 2 by 2 image run along <1, 2, 2>,
\* <1, 2, -2>, <1, -2, 2> and <1, -2, -2>.  The shapes are behind the
\* camera, so that no ray of the image meets a shape, and the area light
\* holds four point lights.
Records ==
    {[type |-> "sphere", obj |-> SB],
     [type |-> "plane", obj |-> infplane(Grey, I(5), Vec(1, 0, 0))],
     [type |-> "cylinder",
      obj |-> cylinder(Grey, I(1), Vec(-6, 5, 0), I(2), Vec(1, 0, 0), Zero)],
     [type |-> "light", obj |-> L2],
     [type |-> "spotlight", obj |-> SP],
     [type |-> "arealight",
      obj |-> arealight(Grey, Vec(0, 3, 0), Vec(0, -1, 0), Vec(0, 0, 1),
                        I(1), I(1), Q(3, 2), Q(3, 2))],
     [type |-> "camera", obj |-> RenderCamera(I(2))],
     [type |-> "end", obj |-> Null],
     [type |-> "#", obj |-> Null],
     [type |-> "Sphere", obj |-> Null],
     [type |-> "bogus", obj |-> Null]}

\* the number of records of a scene description
MaxRecords == 3

Inputs == UNION {[1 .. n -> Records] : n \in 0 .. MaxRecords}

\* main up to its loop: the image is 2 by 2
InitDriver ==
    /\ shapes = <<>> /\ pointlights = <<>> /\ spotlights = <<>>
    /\ useShadows \in BOOLEAN
    /\ fn = "main"
    /\ arg \in [in : Inputs, cam : {Null}, width : {2},
                height : {2}, junk : {<<Zero, Zero>>}]
    /\ res = [status |-> 0, err |-> <<>>]
    /\ stack = <<>>
    /\ os = <<>> /\ px = 0 /\ py = 0

\* a loop body that takes a token it does not recognise for a comment
MainRead_SkipsUnrecognised ==
    /\ fn = "main" /\ arg.in # <<>> /\ Head(arg.in).type # "end"
    /\ shapes' = IF Head(arg.in).type \in {"sphere", "plane", "cylinder"}
                    THEN Append(shapes, Head(arg.in).obj) ELSE shapes
    /\ pointlights' =
          IF Head(arg.in).type = "light"
              THEN Append(pointlights, Head(arg.in).obj)
          ELSE IF Head(arg.in).type = "arealight"
              THEN addAreaLight(pointlights, Head(arg.in).obj, 1)
          ELSE pointlights
    /\ spotlights' = IF Head(arg.in).type = "spotlight"
                        THEN Append(spotlights, Head(arg.in).obj)
                     ELSE spotlights
    /\ arg' = [arg EXCEPT !.in = Tail(@),
                          !.cam = IF Head(arg.in).type = "camera"
                                     THEN Head(arg.in).obj ELSE @]
    /\ fn' = fn /\ res' = res
    /\ UNCHANGED <<useShadows, stack, renderVars>>

\* a loop body that reads on past the token end
MainRead_PastEnd ==
    /\ fn = "main" /\ arg.in # <<>>
    /\ shapes' = IF Head(arg.in).type \in {"sphere", "plane", "cylinder"}
                    THEN Append(shapes, Head(arg.in).obj) ELSE shapes
    /\ pointlights' =
          IF Head(arg.in).type = "light"
              THEN Append(pointlights, Head(arg.in).obj)
          ELSE IF Head(arg.in).type = "arealight"
              THEN addAreaLight(pointlights, Head(arg.in).obj, 1)
          ELSE pointlights
    /\ spotlights' = IF Head(arg.in).type = "spotlight"
                        THEN Append(spotlights, Head(arg.in).obj)
                     ELSE spotlights
    /\ arg' = [arg EXCEPT !.in = Tail(@),
                          !.cam = IF Head(arg.in).type = "camera"
                                     THEN Head(arg.in).obj ELSE @]
    /\ IF Head(arg.in).type \in
             {"sphere", "plane", "cylinder", "light", "spotlight",
              "arealight", "camera", "#", "end"}
          THEN fn' = fn /\ res' = res
          ELSE /\ fn' = "exit"
               /\ res' = [status |-> 1, err |-> <<"ERROR", Head(arg.in).type>>]
    /\ UNCHANGED <<useShadows, stack, renderVars>>

\* the body of the loop for a token other than end
MainRead ==
    /\ fn = "main" /\ arg.in # <<>> /\ Head(arg.in).type # "end"
    /\ shapes' = IF Head(arg.in).type \in {"sphere", "plane", "cylinder"}
                    THEN Append(shapes, Head(arg.in).obj) ELSE shapes
    /\ pointlights' =
          IF Head(arg.in).type = "light"
              THEN Append(pointlights, Head(arg.in).obj)
          ELSE IF Head(arg.in).type = "arealight"
              THEN addAreaLight(pointlights, Head(arg.in).obj, 1)
          ELSE pointlights
    /\ spotlights' = IF Head(arg.in).type = "spotlight"
                        THEN Append(spotlights, Head(arg.in).obj)
                     ELSE spotlights
    /\ arg' = [arg EXCEPT !.in = Tail(@),
                          !.cam = IF Head(arg.in).type = "camera"
                                     THEN Head(arg.in).obj ELSE @]
    /\ IF Head(arg.in).type \in
             {"sphere", "plane", "cylinder", "light", "spotlight",
              "arealight", "camera", "#"}
          THEN fn' = fn /\ res' = res
          ELSE /\ fn' = "exit"
               /\ res' = [status |-> 1, err |-> <<"ERROR", Head(arg.in).type>>]
    /\ UNCHANGED <<useShadows, stack, renderVars>>

\* the loop has stopped, at the token end or at the end of the input, and
\* renderPPM is called with *cam.  With no camera, cam is a null shared
\* pointer: its dereference fails an assertion of the library, or the
\* program faults when renderPPM, having written the header, reads the
\* camera for its first pixel
MainRender ==
    /\ fn = "main"
    /\ IF arg.in = <<>> THEN TRUE ELSE Head(arg.in).type = "end"
    /\ \/ /\ arg.cam # Null
          /\ \E junk \in Junk : arg' = [arg EXCEPT !.junk = junk]
          /\ os' = <<<<"P3", arg.width, arg.height, COLORMAX>>>>
          /\ fn' = "renderPPM"
          /\ res' = res
       \/ /\ arg.cam = Null
          /\ \/ os' = os /\ res' = [res EXCEPT !.status = 134]
             \/ /\ os' = <<<<"P3", arg.width, arg.height, COLORMAX>>>>
                /\ res' = [res EXCEPT !.status = 139]
          /\ fn' = "exit"
          /\ arg' = arg
    /\ UNCHANGED <<sceneVars, stack, px, py>>

\* renderPPM has returned and so does main
MainReturn ==
    /\ fn = "renderPPM" /\ stack = <<>> /\ py = arg.height
    /\ "in" \in DOMAIN arg
    /\ fn' = "exit"
    /\ UNCHANGED <<sceneVars, arg, res, stack, renderVars>>

\* no traceRay of these scenes hits a shape, so none makes a recursive call
NextDriver ==
    \/ MainRead
    \/ MainRender
    \/ RenderPixel
    \/ RenderEmit
    \/ MainReturn

SpecDriver == InitDriver /\ [][NextDriver]_vars

\* D . N for the plane and the ray of the call
PlaneDenom == Dot(arg.ray.D, arg.shape.surfNorm)

\* t = -(P . N + d) / (D . N)
PlaneTime ==
    RDiv(RNeg(RAdd(Dot(arg.ray.P, arg.shape.surfNorm), arg.shape.dist)),
         PlaneDenom)

\* C11: infplane::intersection returns RAY_MISS when the ray is parallel to
\* the plane (D . N = 0) or when t = -(P . N + d) / (D . N) is negative, and
\* otherwise returns that t, which is not negative; the point of the ray at
\* a returned time is on the plane.
C11_PlaneIntersection ==
    (fn = "intersection" /\ arg.shape.kind = "plane") =>
        /\ REq(PlaneDenom, Zero) => res.ret = RAY_MISS
        /\ (RNe(PlaneDenom, Zero) /\ RLt(PlaneTime, Zero))
              => res.ret = RAY_MISS
        /\ (RNe(PlaneDenom, Zero) /\ ~RLt(PlaneTime, Zero))
              => /\ res.ret = PlaneTime
                 /\ RGe(res.ret, Zero)
                 /\ REq(RAdd(Dot(getPointAtT(arg.ray, res.ret),
                                 arg.shape.surfNorm),
                             arg.shape.dist), Zero)

\* a ray that meets a slanted plane at a strictly positive time
C11_Witness ==
    /\ fn = "intersection" /\ arg.shape.kind = "plane"
    /\ RNe(arg.shape.surfNorm[1], Zero) /\ RNe(arg.shape.surfNorm[2], Zero)
    /\ RNe(PlaneDenom, Zero)
    /\ RGt(res.ret, Zero)
    /\ res.ret = PlaneTime

RECURSIVE SumChannel(_, _, _)
\* the sum of channel ch of the colours of the first n of lights
SumChannel(lights, n, ch) ==
    IF n = 0 THEN Zero
    ELSE RAdd(SumChannel(lights, n - 1, ch), lights[n].color[ch])

\* C12: for every area light built with valid spacing, width and height,
\* the colour of each generated point light is the colour of the area light
\* divided by the number of point lights generated, and for each channel the
\* sum over the generated point lights is the value of the area light.
C12_EnergyConservation ==
    (fn = "arealight" /\ ~res.aborted) =>
        /\ \A i \in 1 .. Len(res.lights) :
              res.lights[i].color = CDiv(arg.color, I(Len(res.lights)))
        /\ \A ch \in 1 .. 3 :
              SumChannel(res.lights, Len(res.lights), ch) = arg.color[ch]

\* C13: constructing an area light with a horizontal or vertical spacing
\* that is not positive, or that is not strictly less than the width or
\* height it goes with, fails on an assertion before any point light is
\* generated.
C13_SpacingAsserts ==
    (/\ fn = "arealight"
     /\ \/ ~RGt(arg.horizontalSpacing, Zero)
        \/ ~RGt(arg.verticalSpacing, Zero)
        \/ ~RLt(arg.horizontalSpacing, arg.width)
        \/ ~RLt(arg.verticalSpacing, arg.height))
    => (res.aborted /\ res.lights = <<>>)

\* a positive horizontal spacing equal to the width, everything else valid
C13_Witness ==
    /\ fn = "arealight"
    /\ RGt(arg.horizontalSpacing, Zero)
    /\ arg.horizontalSpacing = arg.width
    /\ RGt(arg.verticalSpacing, Zero)
    /\ RLt(arg.verticalSpacing, arg.height)
    /\ res.aborted /\ res.lights = <<>>

\* the cosine of the angle between the direction of the spotlight sp and
\* the reversed direction to it from the hit point of the call f
CosToAxis(f, sp) == Dot(norm(sp.dir), VNeg(ToLight(f, sp)))

\* that angle exceeds the cone angle of the spotlight: the cosine decreases
\* as the angle grows from 0 to pi
AngleExceeds(f, sp) == RLt(CosToAxis(f, sp), sp.cosAngle)

RECURSIVE SumOtherSpotLights(_, _, _)
\* the contributions of the spotlights from the i-th on, but for the
\* spotlight number skip
SumOtherSpotLights(f, i, skip) ==
    IF i > Len(spotlights) THEN Black
    ELSE CAdd(IF i # skip /\ ~AngleExceeds(f, spotlights[i])
                  THEN Contribution(f, spotlights[i]) ELSE Black,
              SumOtherSpotLights(f, i + 1, skip))

\* the direct lighting without the spotlight number skip
DirectButSpot(f, skip) ==
    CAdd(SumPointLights(f, 1, 0), SumOtherSpotLights(f, 1, skip))

\* C14: a spotlight whose direction makes an angle with the reversed
\* direction to the light (-L) that exceeds its cone angle adds nothing to
\* the colour traceRay computes, whatever L.N and the shadows flag are; a
\* spotlight for which that angle is at most the cone angle adds what a
\* point light of its colour at its position adds.
C14_SpotlightCone ==
    \A i \in 1 .. Len(stack) : \A k \in 1 .. Len(spotlights) :
        DirectOnly(stack[i])
        => stack[i].finalColor =
              CAdd(DirectButSpot(stack[i], k),
                   IF AngleExceeds(stack[i], spotlights[k]) THEN Black
                   ELSE Contribution(stack[i],
                            light(spotlights[k].color, spotlights[k].pos)))

\* a hit outside the cone of a spotlight that faces the surface and is not
\* shadowed: as a point light it would have added a colour
C14_Witness ==
    /\ stack # <<>> /\ DirectOnly(stack[1])
    /\ \E k \in 1 .. Len(spotlights) :
          /\ AngleExceeds(stack[1], spotlights[k])
          /\ RGt(CosToAxis(stack[1], spotlights[k]), I(-1))
          /\ Contribution(stack[1], spotlights[k]) # Black
          /\ stack[1].finalColor = DirectButSpot(stack[1], k)

\* C15: findClosestShape, traceRay and renderPPM leave the scene unchanged:
\* no step of a call, the calls that traceRay and renderPPM make included,
\* and no return changes the shape list, the point-light list, the
\* spotlight list or the shadows flag.
C15_SceneUnchanged ==
    [][(fn # "none" \/ fn' # "none") => sceneVars' = sceneVars]_vars

\* an image has been rendered from a scene of shapes and lights and a
\* pixel of it is lit
C15_Witness ==
    /\ fn = "renderPPM" /\ py = arg.height /\ stack = <<>>
    /\ shapes # <<>> /\ pointlights # <<>>
    /\ \E k \in 2 .. Len(os) : os[k] # <<0, 0, 0>>

\* the type tokens that main recognises
Recognised ==
    {"sphere", "plane", "cylinder", "light", "spotlight", "arealight",
     "camera", "end", "#"}

\* C16: when the driver reads a type token that is not sphere, plane,
\* cylinder, light, spotlight, arealight, camera, end or #, it reports an
\* error that names the token and exits with a nonzero status, and
\* renderPPM is never called in that run: nothing has been written to the
\* output and the program takes no further step.
C16_UnrecognisedToken ==
    /\ [][(fn = "main" /\ arg.in # <<>>
              /\ Head(arg.in).type \notin Recognised)
          => /\ fn' = "exit" /\ res'.status # 0
             /\ res'.err = <<"ERROR", Head(arg.in).type>>
             /\ os' = <<>>]_vars
    /\ []((fn = "exit" /\ res.err # <<>>) => (res.status # 0 /\ os = <<>>))
    /\ [][fn # "exit"]_vars

\* a description whose third record has an unrecognised type, after a
\* sphere and a camera have been read
C16_Witness ==
    /\ fn = "exit" /\ res.status = 1 /\ res.err = <<"ERROR", "bogus">>
    /\ Len(shapes) = 1 /\ arg.cam # Null /\ arg.in = <<>>
    /\ os = <<>>

(***************************************************************************)
(* C17                                                                     *)
(***************************************************************************)
\* the well-formed input b without its k-th character
Without(b, k) == SubSeq(b, 1, k - 1) \o SubSeq(b, k + 1, Len(b))

\* the input of the call is a well-formed vector that lacks a character ch
Missing(ch) ==
    /\ fn = "input"
    /\ ~arg.failed
    /\ \E b \in InputBases : \E k \in 1 .. Len(b) :
           b[k] = ch /\ arg.buf = Without(b, k)

\* C17: reading a vector raises a stream failure when the opening
\* '<' is missing, when a ',' between two components is missing and when
\* the closing '>' is missing.
C17_MalformedFails ==
    Missing("<") \/ Missing(",") \/ Missing(">") => res.thrown

(***************************************************************************)
(* C18                                                                     *)
(***************************************************************************)
\* the coefficient of cam.right in the direction of the pixel's ray, the
\* coefficient of cam.dir being cam.dist: the camera's three vectors are
\* orthonormal, and the ray's direction is a multiple of the pixel's
RightCoef(cam, r) ==
    RDiv(RMul(Dot(r.D, cam.right), cam.dist), Dot(r.D, cam.dir))

\* C18: for every image width and height, the coefficient of the camera's
\* right vector in the ray of column 0 is the negation of the coefficient
\* in the ray of column width - 1 of the same row (stated for the heights
\* above 1, for which the coefficients are finite).
C18_HorizontallyCentred ==
    fn = "getRayForPixel" /\ ~res.aborted /\ arg.x = 0 /\ arg.height > 1 =>
        REq(RightCoef(arg.cam, res.ray),
            RNeg(RightCoef(arg.cam,
                     getRayForPixel(arg.cam, arg.width - 1, arg.y,
                                    arg.width, arg.height))))

(***************************************************************************)
(* C19                                                                     *)
(***************************************************************************)
\* the orders in which n shapes can be added
Orders(n) ==
    {p \in [1 .. n -> 1 .. n] : \A k, l \in 1 .. n : p[k] = p[l] => k = l}

\* the shapes of the scene, added in the order p
Reordered(p) == [k \in 1 .. Len(shapes) |-> shapes[p[k]]]

\* the time of shape i is strictly positive and strictly less than every
\* other strictly positive time
StrictlyClosest(times, i) ==
    /\ i \in Ahead(times)
    /\ \A j \in Ahead(times) \ {i} : RLt(times[i], times[j])

\* C19: when the strictly positive intersection time of one shape is
\* strictly less than that of every other shape, findClosestShape returns
\* that shape and that time, and so it does on the scene that holds the same
\* shapes added in any other order.
C19_ClosestInAnyOrder ==
    fn = "findClosestShape" =>
        \A i \in 1 .. Len(shapes) :
            StrictlyClosest(Times(arg.ray, arg.junk), i) =>
                /\ res.obj = i
                /\ res.t = Times(arg.ray, arg.junk)[i]
                /\ \A p \in Orders(Len(shapes)) :
                       findClosestShape(Reordered(p), arg.ray, arg.junk)
                           = [obj |-> CHOOSE k \in 1 .. Len(shapes) : p[k] = i,
                              t |-> Times(arg.ray, arg.junk)[i]]

\* of three shapes the second is strictly closest, a farther one was added
\* before it and a farther one after it
C19_Witness ==
    /\ fn = "findClosestShape"
    /\ Len(shapes) = 3
    /\ StrictlyClosest(Times(arg.ray, arg.junk), 2)
    /\ {1, 3} \subseteq Ahead(Times(arg.ray, arg.junk))
    /\ res.obj = 2

(***************************************************************************)
(* C20                                                                     *)
(***************************************************************************)
\* the shapes whose time is the least strictly positive one
Nearest(times) ==
    {i \in Ahead(times) : \A j \in Ahead(times) : RLe(times[i], times[j])}

\* C20: when two or more shapes share the least strictly positive
\* intersection time, findClosestShape returns the one of them that was
\* added first, and that time.
C20_TieToFirstAdded ==
    fn = "findClosestShape"
        /\ Cardinality(Nearest(Times(arg.ray, arg.junk))) >= 2 =>
            /\ res.obj \in Nearest(Times(arg.ray, arg.junk))
            /\ \A j \in Nearest(Times(arg.ray, arg.junk)) : res.obj <= j
            /\ res.t = Times(arg.ray, arg.junk)[res.obj]

\* a farther shape was added first and then two shapes that share the least
\* time: the second of the three is returned
C20_Witness ==
    /\ fn = "findClosestShape"
    /\ Nearest(Times(arg.ray, arg.junk)) = {2, 3}
    /\ 1 \in Ahead(Times(arg.ray, arg.junk))
    /\ res.obj = 2

(***************************************************************************)
(* C21                                                                     *)
(***************************************************************************)
\* the call f hit a shape of reflectivity > 0 at a depth < MAX_REFLECT
Reflects(f) ==
    /\ f.intersectedObjPtr # 0
    /\ RGt(shapes[f.intersectedObjPtr].reflectivity, Zero)
    /\ f.depth < MAX_REFLECT

\* C21: a traceRay makes a recursive call if and only if it hit a shape of
\* reflectivity > 0 at a depth < 10: the call is made for the reflected ray
\* at depth + 1, and when it returns the colour of the caller is its direct
\* lighting plus reflectivity times the colour returned; a call that hit a
\* shape and makes no recursive call (reflectivity 0, or depth 10) returns
\* its direct lighting alone.
C21_Reflection ==
    /\ [](\A i \in 1 .. Len(stack) :
             /\ stack[i].pc = "reflect" =>
                    Reflects(stack[i])
                        /\ stack[i].finalColor = Direct(stack[i], 0)
             /\ stack[i].intersectedObjPtr # 0 /\ ~Reflects(stack[i]) =>
                    stack[i].pc = "return"
                        /\ stack[i].finalColor = Direct(stack[i], 0))
    /\ [][Len(stack') = Len(stack) + 1 =>
             /\ Top'.pc = "reflect" <=> Reflects(Top')
             /\ stack # <<>> =>
                    /\ Top.pc = "reflect"
                    /\ Top'.r = reflect(Top.r, Top.intersectionPt, Top.N)
                    /\ Top'.depth = Top.depth + 1]_vars
    /\ [][Len(stack) >= 2 /\ Len(stack') = Len(stack) - 1 =>
             /\ Top.pc = "return"
             /\ Reflects(Top')
             /\ Top'.pc = "return"
             /\ Top'.finalColor =
                    CAdd(Direct(Top', 0),
                         CScale(Top.finalColor,
                                shapes[Top'.intersectedObjPtr].reflectivity))]_vars

\* the outermost call has its reflection in its colour, and the colour
\* reflected is not black
C21_Witness ==
    /\ fn = "traceRay"
    /\ Len(stack) = 1
    /\ stack[1].pc = "return"
    /\ Reflects(stack[1])
    /\ stack[1].finalColor # Direct(stack[1], 0)

(***************************************************************************)
(* C22                                                                     *)
(***************************************************************************)
\* the shapes that the shadow ray of the call f towards lt meets at a
\* strictly positive time
ShadowHits(f, lt) == Ahead(Times(ShadowRay(f, lt), arg.junk))

\* every shape the shadow ray meets, it meets farther away than the light
BeyondLight(f, lt) ==
    \A j \in ShadowHits(f, lt) :
        RGt(RMul(Times(ShadowRay(f, lt), arg.junk)[j],
                 Times(ShadowRay(f, lt), arg.junk)[j]),
            magsq(VSub(lt.pos, f.intersectionPt)))

\* C22: with shadows enabled, a point light or a spotlight whose shadow
\* ray, cast from the hit point offset by DELTA along the normal, meets any
\* shape at a strictly positive time adds nothing to the colour of the hit
\* point, also when every shape it meets is farther away than the light.
C22_ShadowBeyondLight ==
    \A i \in 1 .. Len(stack) :
        useShadows /\ DirectOnly(stack[i]) =>
            /\ \A k \in 1 .. Len(pointlights) :
                   ShadowHits(stack[i], pointlights[k]) # {} =>
                       stack[i].finalColor = Direct(stack[i], k)
            /\ \A k \in 1 .. Len(spotlights) :
                   ShadowHits(stack[i], spotlights[k]) # {} =>
                       stack[i].finalColor = DirectButSpot(stack[i], k)

\* a spotlight that faces the surface, with the hit point in its cone, is
\* cut off by a shape that lies beyond it, and it would have added a colour
C22_Witness ==
    /\ useShadows /\ stack # <<>> /\ DirectOnly(stack[1])
    /\ \E k \in 1 .. Len(spotlights) :
          /\ ShadowHits(stack[1], spotlights[k]) # {}
          /\ BeyondLight(stack[1], spotlights[k])
          /\ ~AngleExceeds(stack[1], spotlights[k])
          /\ RGt(Facing(stack[1], spotlights[k]), Zero)
          /\ Lambert(stack[1], spotlights[k]) # Black
          /\ stack[1].finalColor = DirectButSpot(stack[1], k)

(***************************************************************************)
(* C23                                                                     *)
(***************************************************************************)
\* the driver reads the record of an area light
ReadsAreaLight ==
    fn = "main" /\ arg.in # <<>> /\ Head(arg.in).type = "arealight"

\* C23: addAreaLight appends the point lights of the area light, in their
\* order, to the point-light list of the scene: the list grows by the
\* number of lights of the area light, and the shape list, the spotlight
\* list and the shadows flag are unchanged.
C23_AddAreaLight ==
    [][ReadsAreaLight =>
          /\ Len(pointlights') = Len(pointlights) + Len(Head(arg.in).obj.lights)
          /\ SubSeq(pointlights', 1, Len(pointlights)) = pointlights
          /\ \A k \in 1 .. Len(Head(arg.in).obj.lights) :
                 pointlights'[Len(pointlights) + k] = Head(arg.in).obj.lights[k]
          /\ shapes' = shapes
          /\ spotlights' = spotlights
          /\ useShadows' = useShadows]_vars

\* an area light of four point lights, of which the first and the last
\* differ, has been added after a point light
C23_Witness ==
    /\ Len(pointlights) = 5
    /\ pointlights[1] = L2
    /\ pointlights[2] # pointlights[5]
    /\ \E rec \in Records :
          rec.type = "arealight" /\ SubSeq(pointlights, 2, 5) = rec.obj.lights

(***************************************************************************)
(* C24                                                                     *)
(***************************************************************************)
\* C24: after an area light has been assigned to a different area light,
\* the target holds as many point lights as the source, with the colours
\* and the positions of the source's.
C24_DeepCopy ==
    fn = "operator=" /\ ~arg.same =>
        /\ Len(res.lights) = Len(arg.rhs.lights)
        /\ \A k \in 1 .. Len(arg.rhs.lights) :
               /\ res.lights[k].color = arg.rhs.lights[k].color
               /\ res.lights[k].pos = arg.rhs.lights[k].pos

(***************************************************************************)
(* C25                                                                     *)
(***************************************************************************)
\* the number of white-space characters at the start of buf
Leading(buf) ==
    CHOOSE n \in 0 .. Len(buf) :
        /\ \A k \in 1 .. n : buf[k] = " "
        /\ n = Len(buf) \/ buf[n + 1] # " "

\* a vector is read from a good stream whose first character that is not
\* white space is not '<'
NotAVector ==
    /\ fn = "input"
    /\ ~arg.failed
    /\ Leading(arg.buf) < Len(arg.buf)
    /\ arg.buf[Leading(arg.buf) + 1] # "<"

LoopStopped ==
    IF arg.in = <<>> THEN TRUE ELSE Head(arg.in).type = "end"

\* C26: the driver reads one record at a time and never past a token end:
\* once the input is at an end token or at its end nothing more is read,
\* no shape and no light is added and the camera is not replaced; and
\* nothing is rendered before the loop has stopped.
C26_StopsAtEnd ==
    /\ [][arg'.in # arg.in =>
             /\ ~LoopStopped
             /\ fn = "main"
             /\ arg'.in = Tail(arg.in)]_vars
    /\ [][LoopStopped =>
             /\ arg'.in = arg.in
             /\ sceneVars' = sceneVars
             /\ arg'.cam = arg.cam]_vars
    /\ [](fn = "renderPPM" \/ os # <<>> => LoopStopped)

\* an image is rendered of an empty scene: the sphere that follows the
\* token end was not read
C26_Witness ==
    /\ fn = "renderPPM"
    /\ Len(arg.in) = 2
    /\ arg.in[1].type = "end"
    /\ arg.in[2].type = "sphere"
    /\ shapes = <<>>
    /\ arg.cam # Null
    /\ Len(os) > 1

(***************************************************************************)
(* C27                                                                     *)
(***************************************************************************)
\* C27: when the reading loop has stopped at a token end or at the end of
\* the input, the camera pointer that main dereferences for renderPPM is
\* not null, and no run ends in the failure of that dereference.
C27_CameraSet ==
    /\ fn = "main" /\ LoopStopped => arg.cam # Null
    /\ fn = "exit" => res.status \in {0, 1}

(***************************************************************************)
(* C28                                                                     *)
(***************************************************************************)
\* obj and t are a shape together with a strictly positive time, or the
\* null shape together with RAY_MISS
FoundAhead(obj, t) ==
    /\ obj # 0 => RGt(t, Zero)
    /\ obj = 0 <=> t = RAY_MISS

\* C28: findClosestShape returns a shape only together with a strictly
\* positive out-parameter, and the null shape exactly when the
\* out-parameter is RAY_MISS; so the time that a traceRay which hit a shape
\* has passed to getPointAtT for its intersection point is > 0, and the
\* assertion t >= 0 holds of it.
C28_PositiveTime ==
    /\ fn = "findClosestShape" => FoundAhead(res.obj, res.t)
    /\ \A i \in 1 .. Len(stack) :
          /\ FoundAhead(stack[i].intersectedObjPtr, stack[i].tIntersect)
          /\ stack[i].intersectedObjPtr # 0 =>
                 /\ RGe(stack[i].tIntersect, Zero)
                 /\ stack[i].intersectionPt
                        = getPointAtT(stack[i].r, stack[i].tIntersect)

\* a reflected ray has hit a shape: the time passed to getPointAtT is > 0
C28_Witness ==
    /\ fn = "traceRay"
    /\ Len(stack) >= 2
    /\ stack[2].intersectedObjPtr # 0
    /\ RGt(stack[2].tIntersect, Zero)
    /\ stack[2].intersectionPt = getPointAtT(stack[2].r, stack[2].tIntersect)
    /\ stack[2].intersectionPt # stack[2].r.P

(***************************************************************************)
(* C29                                                                     *)
(***************************************************************************)
\* C29: getIntersections assigns both out-parameters on every path: what
\* t1 and t2 hold after the call does not depend on what they held before
\* it, so that a caller with uninitialised locals reads no indeterminate
\* value.
C29_OutParametersAssigned ==
    fn = "getIntersections" =>
        \A junk \in Junk :
            /\ getIntersections(arg.shape, arg.ray, junk[1], junk[2]).t1
                   = res.t1
            /\ getIntersections(arg.shape, arg.ray, junk[1], junk[2]).t2
                   = res.t2

(***************************************************************************)
(* C30                                                                     *)
(***************************************************************************)
\* C30: for every argument tuple that passes the assertions of
\* getRayForPixel, the divisor height - 1 is not zero, and the ray has a
\* direction.
C30_DivisorNonZero ==
    fn = "getRayForPixel" /\ ~res.aborted =>
        /\ arg.height - 1 # 0
        /\ \A k \in 1 .. 3 : ~IsNaN(res.ray.D[k])

====
